---------------------------- MODULE Spec2Model ----------------------------
(***************************************************************************)
(* The quiz orchestrator of top5-value-quiz: the Svelte stores             *)
(* (lib/stores), the page component (routes/+page.svelte) with its         *)
(* event handlers, its reactive statement and its asynchronous remote      *)
(* calls, and the three server endpoints as the page sees them.            *)
(*                                                                         *)
(* One action is one task of the browser's event loop: a user event, a     *)
(* page load, or the completion of a fetch.  The handler runs to its next  *)
(* await, and the component's pending update (the reactive statement) is   *)
(* flushed before the next task.                                           *)
(***************************************************************************)
EXTENDS Integers, Sequences, FiniteSets, TLC

(***************************************************************************)
(* Bounds of the model: the numbers of questions and the catalog of        *)
(* lib/constants, scaled down.                                             *)
(***************************************************************************)
TOTAL_PHASE_1_QUESTIONS == 2

TOTAL_PHASE_2_QUESTIONS == 2

TOTAL_QUESTIONS == TOTAL_PHASE_1_QUESTIONS + TOTAL_PHASE_2_QUESTIONS

\* The value catalog (52 names in the program, six here).
PROFESSIONAL_VALUES ==
    <<"Autonomy", "Security", "Growth", "Balance", "Impact", "Status">>

\* A name no catalog entry bears.
Unlisted == "Unlisted"

(***************************************************************************)
(* JavaScript values.  null/undefined is the empty tuple and a held value  *)
(* v is <<v>>.  A text is a sequence of words; String.includes(v) is       *)
(* modelled at the level of words.                                         *)
(***************************************************************************)
Null == <<>>

Some(x) == <<x>>

Val(o) == o[1]

Range(f) == {f[i] : i \in DOMAIN f}

Includes(text, v) == \E i \in 1..Len(text) : text[i] = v

\* Array.prototype.find over values_being_compared: the first match or undefined.
RECURSIVE Find(_, _, _)
Find(arr, text, i) ==
    IF i > Len(arr) THEN Null
    ELSE IF Includes(text, arr[i]) THEN Some(arr[i])
    ELSE Find(arr, text, i + 1)

\* comparedValues.find((v) => v !== chosenValue)
RECURSIVE FindOther(_, _, _)
FindOther(arr, chosen, i) ==
    IF i > Len(arr) THEN Null
    ELSE IF Some(arr[i]) # chosen THEN Some(arr[i])
    ELSE FindOther(arr, chosen, i + 1)

\* array[i] with a 0-based index: undefined outside the array.
ArrayGet(arr, i) == IF i + 1 \in 1..Len(arr) THEN Some(arr[i + 1]) ELSE Null

Max(a, b) == IF a >= b THEN a ELSE b

\* All orderings of a set, as sequences.
Permutations_(S) ==
    {p \in [1..Cardinality(S) -> S] : \A i, j \in DOMAIN p : i # j => p[i] # p[j]}

(***************************************************************************)
(* Serialisation used by the persistence subscriptions.                    *)
(***************************************************************************)
JSONstringify(v) == [json |-> v]

JSONparse(t) == t.json

toString(i) == [digits |-> i]

parseInt(t) == t.digits

\* const initializeScores = () => { PROFESSIONAL_VALUES.forEach(v => scores[v] = 0) }
initializeScores == [v \in Range(PROFESSIONAL_VALUES) |-> 0]

EmptyStorage ==
    [quizPhase |-> Null, valueScores |-> Null,
     currentQuestionIndex |-> Null, quizHistory |-> Null]

(***************************************************************************)
(* The static asset /phase1_questions.json: TOTAL_PHASE_1_QUESTIONS        *)
(* simple_choice questions of two options, each option tagged with hint    *)
(* values (one hint of one option is not a catalog value).                 *)
(***************************************************************************)
CatalogAt(i) == PROFESSIONAL_VALUES[((i - 1) % Len(PROFESSIONAL_VALUES)) + 1]

Phase1Question(i) ==
    [id |-> [src |-> "phase1", n |-> i],
     type |-> "simple_choice",
     text |-> <<"phase1-question">>,
     options |-> << [text |-> <<"first">>, value_area_hint |-> <<CatalogAt(i)>>],
                    [text |-> <<"second">>,
                     value_area_hint |-> <<CatalogAt(i + 1), Unlisted>>] >>,
     values_being_compared |-> <<>>]

Phase1Asset == [i \in 1..TOTAL_PHASE_1_QUESTIONS |-> Phase1Question(i)]

(***************************************************************************)
(* What the text-generation service may answer (the parsed content of      *)
(* choices[0].message.content) to a question request.                      *)
(***************************************************************************)
ForcedChoiceContent ==
    [id |-> [src |-> "ai", n |-> 1],
     type |-> "forced_choice",
     text |-> <<"which-matters-more">>,
     options |-> << [text |-> <<"I", "choose", "Autonomy">>],
                    [text |-> <<"I", "choose", "Security">>] >>,
     values_being_compared |-> <<"Autonomy", "Security">>]

RankingContent ==
    [id |-> [src |-> "ai", n |-> 2],
     type |-> "ranking",
     text |-> <<"rank-these">>,
     options |-> << [text |-> <<"Growth">>], [text |-> <<"Balance">>],
                    [text |-> <<"Impact">>] >>,
     values_being_compared |-> <<"Growth", "Balance", "Impact">>]

UnlistedValueContent ==
    [id |-> [src |-> "ai", n |-> 3],
     type |-> "forced_choice",
     text |-> <<"which-matters-more">>,
     options |-> << [text |-> <<"Status">>], [text |-> <<Unlisted>>] >>,
     values_being_compared |-> <<"Status", Unlisted>>]

QuestionContents == {ForcedChoiceContent, RankingContent, UnlistedValueContent}

\* Further contents the endpoint lets through, told apart by how their
\* options are worded (the schema: "can be the value name or a descriptive
\* phrase"): a forced choice whose options describe the values without
\* naming them, a ranking of four, a ranking with one such description.
DescriptiveChoiceContent ==
    [id |-> [src |-> "ai", n |-> 4],
     type |-> "forced_choice",
     text |-> <<"which-matters-more">>,
     options |-> << [text |-> <<"learning">>], [text |-> <<"reach">>] >>,
     values_being_compared |-> <<"Growth", "Impact">>]

FourOptionsContent ==
    [id |-> [src |-> "ai", n |-> 5],
     type |-> "ranking",
     text |-> <<"rank-these">>,
     options |-> << [text |-> <<"Autonomy">>], [text |-> <<"Security">>],
                    [text |-> <<"Growth">>], [text |-> <<"Balance">>] >>,
     values_being_compared |-> <<"Autonomy", "Security", "Growth", "Balance">>]

DescriptiveRankingContent ==
    [id |-> [src |-> "ai", n |-> 6],
     type |-> "ranking",
     text |-> <<"rank-these">>,
     options |-> << [text |-> <<"Growth">>], [text |-> <<"time", "off">>],
                    [text |-> <<"Impact">>] >>,
     values_being_compared |-> <<"Growth", "Balance", "Impact">>]

\* Contents within the schema sent to the service (type of the enum, two to
\* four options, two or more catalog values) that are not well formed: a
\* forced choice of three options, and one that compares a value with itself.
ThreeOptionsChoiceContent ==
    [id |-> [src |-> "ai", n |-> 7],
     type |-> "forced_choice",
     text |-> <<"which-matters-more">>,
     options |-> << [text |-> <<"Status">>], [text |-> <<"Impact">>],
                    [text |-> <<"neither">>] >>,
     values_being_compared |-> <<"Status", "Impact">>]

RepeatedValueContent ==
    [id |-> [src |-> "ai", n |-> 8],
     type |-> "forced_choice",
     text |-> <<"which-matters-more">>,
     options |-> << [text |-> <<"Status">>], [text |-> <<"rank">>] >>,
     values_being_compared |-> <<"Status", "Status">>]

WordedQuestionContents ==
    {ForcedChoiceContent, RankingContent, DescriptiveChoiceContent,
     FourOptionsContent, DescriptiveRankingContent,
     ThreeOptionsChoiceContent, RepeatedValueContent}

\* Contents answered to an evaluation request.
Top5Content == [top5Values |-> SubSeq(PROFESSIONAL_VALUES, 1, 5)]

FourValuesContent == [top5Values |-> SubSeq(PROFESSIONAL_VALUES, 1, 4)]

UnlistedTop5Content ==
    [top5Values |-> SubSeq(PROFESSIONAL_VALUES, 1, 4) \o <<Unlisted>>]

EvaluationContents == {Top5Content, FourValuesContent, UnlistedTop5Content}

\* Five catalog values, one of them twice (within the schema sent to the
\* service, which asks for strings of the catalog).
RepeatedTop5Content ==
    [top5Values |-> <<PROFESSIONAL_VALUES[1]>> \o SubSeq(PROFESSIONAL_VALUES, 1, 4)]

\* Five distinct catalog values, not in the catalog's order.
ReorderedTop5Content ==
    [top5Values |-> <<PROFESSIONAL_VALUES[6], PROFESSIONAL_VALUES[5],
                      PROFESSIONAL_VALUES[4], PROFESSIONAL_VALUES[3],
                      PROFESSIONAL_VALUES[2]>>]

ListedEvaluationContents ==
    EvaluationContents \cup {RepeatedTop5Content, ReorderedTop5Content}

\* Contents answered to a review request (an empty text is rejected).
ReviewContents == {[reviewText |-> <<"because">>], [reviewText |-> <<>>]}

(***************************************************************************)
(* How a call to the text-generation service ends, for the endpoint.       *)
(***************************************************************************)
UpstreamFailures == {"not_configured", "rate_limit", "upstream_error"}


Upstreams(contents) ==
    {[outcome |-> f, content |-> Null] : f \in UpstreamFailures}
        \cup {[outcome |-> "content", content |-> Some(c)] : c \in contents}

\* An HTTP response of an endpoint, as the page's fetch receives it.
HttpError(status, message) ==
    [ok |-> FALSE, status |-> status, message |-> message, body |-> Null]

HttpJson(content) ==
    [ok |-> TRUE, status |-> 200, message |-> "ok", body |-> Some(content)]

\* The page's own fetch failing (no response, no status).
TransportFailure == HttpError(0, "transport")

\* The part all three endpoints share: the key check and the upstream's errors.
EndpointFailure(up) ==
    CASE up.outcome = "not_configured" ->
            HttpError(500, "AI service is not configured on the server.")
      [] up.outcome = "rate_limit" -> HttpError(429, "Rate limit exceeded.")
      [] OTHER -> HttpError(500, "AI service error")

\* POST /api/generate-question
GenerateQuestionPOST(up) ==
    IF up.outcome # "content" THEN EndpointFailure(up)
    ELSE LET c == Val(up.content) IN
         IF \E i \in 1..Len(c.values_being_compared) :
                c.values_being_compared[i] \notin Range(PROFESSIONAL_VALUES)
         THEN HttpError(500, "AI service response handling error")
         ELSE HttpJson(c)

\* POST /api/evaluate-answers
EvaluateAnswersPOST(req, up) ==
    IF up.outcome = "not_configured" THEN EndpointFailure(up)
    ELSE IF Len(req.history) = 0
    THEN HttpError(400, "Missing or invalid answer history for evaluation.")
    ELSE IF up.outcome # "content" THEN EndpointFailure(up)
    ELSE LET c == Val(up.content) IN
         IF Len(c.top5Values) # 5
            \/ \E i \in 1..Len(c.top5Values) :
                   c.top5Values[i] \notin Range(PROFESSIONAL_VALUES)
         THEN HttpError(500, "AI evaluation response handling error")
         ELSE HttpJson(c)

\* POST /api/generate-review
GenerateReviewPOST(req, up) ==
    IF up.outcome = "not_configured" THEN EndpointFailure(up)
    ELSE IF Len(req.history) = 0
    THEN HttpError(400, "Missing or invalid answer history for review generation.")
    ELSE IF up.outcome # "content" THEN EndpointFailure(up)
    ELSE LET c == Val(up.content) IN
         IF c.reviewText = <<>>
         THEN HttpError(500, "AI review response handling error")
         ELSE HttpJson(c)

GenerationResponses ==
    {GenerateQuestionPOST(up) : up \in Upstreams(QuestionContents)}
        \cup {TransportFailure}

\* The successful generations, over the contents of every wording.
WordedGenerationResponses ==
    {GenerateQuestionPOST([outcome |-> "content", content |-> Some(c)]) :
         c \in WordedQuestionContents}

EvaluationResponses(req) ==
    {EvaluateAnswersPOST(req, up) : up \in Upstreams(EvaluationContents)}
        \cup {TransportFailure}

\* The evaluations over every content, and the upstream's failures.
ListedEvaluationResponses(req) ==
    {EvaluateAnswersPOST(req, up) : up \in Upstreams(ListedEvaluationContents)}
        \cup {TransportFailure}

ReviewResponses(req) ==
    {GenerateReviewPOST(req, up) : up \in Upstreams(ReviewContents)}
        \cup {TransportFailure}

(***************************************************************************)
(* State.  The stores of lib/stores, the durable store, the locals of the  *)
(* page component, the pending fetches, and a record of the last step.     *)
(***************************************************************************)
VARIABLES
    quizPhase,              \* store, persisted
    valueScores,            \* store, persisted
    currentQuestionIndex,   \* store, persisted
    quizHistory,            \* store, persisted
    currentPhase2Question,  \* store
    errorMessage,           \* store
    retryPossible,          \* store
    evaluatedTop5,          \* store
    reviewText,             \* store
    localStorage,           \* the durable key -> string store
    phase1Questions,        \* component local
    currentQuestion,        \* component local
    isLoading,              \* component local
    showResumePrompt,       \* component local
    selectedRanking,        \* QuestionCard local: rank -> index of the option
    mount,                  \* onMount: "loading" | "loaded" | "failed"
    inflight,               \* requests awaiting their response, oldest first
    last,                   \* the step that led here (history variable)
    visited                 \* the quiz phases seen since the user's last
                            \* restart, start-over or start (history variable)

vars ==
    <<quizPhase, valueScores, currentQuestionIndex, quizHistory,
      currentPhase2Question, errorMessage, retryPossible, evaluatedTop5,
      reviewText, localStorage, phase1Questions, currentQuestion, isLoading,
      showResumePrompt, selectedRanking, mount, inflight, last, visited>>

\* The program state as one record, threaded through a handler's statements.
\* dirty: the reactive statement's dependencies were invalidated in this task.
\* issued: the requests this task has sent.  op, shown: the task's name and
\* the error message on display when it began (kept with each request sent).
\* sel: the answer the task submits, if it is one.
Here(op) ==
    [quizPhase |-> quizPhase, valueScores |-> valueScores,
     currentQuestionIndex |-> currentQuestionIndex, quizHistory |-> quizHistory,
     currentPhase2Question |-> currentPhase2Question,
     errorMessage |-> errorMessage, retryPossible |-> retryPossible,
     evaluatedTop5 |-> evaluatedTop5, reviewText |-> reviewText,
     localStorage |-> localStorage, phase1Questions |-> phase1Questions,
     currentQuestion |-> currentQuestion, isLoading |-> isLoading,
     showResumePrompt |-> showResumePrompt,
     selectedRanking |-> selectedRanking, mount |-> mount,
     inflight |-> inflight, dirty |-> FALSE, issued |-> <<>>,
     op |-> op, shown |-> errorMessage, sel |-> Null]

(***************************************************************************)
(* lib/stores: writable stores.  set() notifies the subscribers only when  *)
(* the value changes (always for objects and arrays); the persistence      *)
(* subscriptions write the durable store, the component's subscriptions    *)
(* invalidate $quizPhase and $currentQuestionIndex.                        *)
(***************************************************************************)
quizPhase_set(s, v) ==
    IF s.quizPhase = v THEN s
    ELSE [s EXCEPT !.quizPhase = v, !.localStorage.quizPhase = Some(v),
                   !.dirty = TRUE]

valueScores_set(s, v) ==
    [s EXCEPT !.valueScores = v,
              !.localStorage.valueScores = Some(JSONstringify(v))]

currentQuestionIndex_set(s, v) ==
    IF s.currentQuestionIndex = v THEN s
    ELSE [s EXCEPT !.currentQuestionIndex = v,
                   !.localStorage.currentQuestionIndex = Some(toString(v)),
                   !.dirty = TRUE]

\* Mutant: the history store without its persistence subscription.
quizHistory_set_unpersisted(s, v) == [s EXCEPT !.quizHistory = v]

quizHistory_set(s, v) ==
    [s EXCEPT !.quizHistory = v,
              !.localStorage.quizHistory = Some(JSONstringify(v))]

\* Mutant: only the tally and the position are removed.
clearLocalStorage_keepsHistory(s) ==
    [s EXCEPT !.localStorage.valueScores = Null,
              !.localStorage.currentQuestionIndex = Null]

\* export function clearLocalStorage()
clearLocalStorage(s) == [s EXCEPT !.localStorage = EmptyStorage]

\* Mutant: resetQuiz without quizHistory.set([]).
resetQuiz_keepsHistory(s) ==
    LET s1 == quizPhase_set(s, "start")
        s2 == valueScores_set(s1, initializeScores)
        s3 == currentQuestionIndex_set(s2, 0)
        s4 == [s3 EXCEPT !.currentPhase2Question = Null,
                         !.errorMessage = Null,
                         !.retryPossible = FALSE]
        s6 == [s4 EXCEPT !.evaluatedTop5 = Null, !.reviewText = Null]
    IN  clearLocalStorage(s6)

\* export function resetQuiz()
resetQuiz(s) ==
    LET s1 == quizPhase_set(s, "start")
        s2 == valueScores_set(s1, initializeScores)
        s3 == currentQuestionIndex_set(s2, 0)
        s4 == [s3 EXCEPT !.currentPhase2Question = Null,
                         !.errorMessage = Null,
                         !.retryPossible = FALSE]
        s5 == quizHistory_set(s4, <<>>)
        s6 == [s5 EXCEPT !.evaluatedTop5 = Null, !.reviewText = Null]
    IN  clearLocalStorage(s6)


(***************************************************************************)
(* routes/+page.svelte                                                     *)
(***************************************************************************)
\* The body of a request, as JSON.stringify captures it when fetch is called,
\* and (origin) the task that sent it, the position it was sent at and
\* whether the rate-limit message was on display before.
Request(kind, s) ==
    [kind |-> kind,
     origin |-> [by |-> s.op, index |-> s.currentQuestionIndex,
                 afterRateLimit |-> s.shown # Null
                                    /\ Val(s.shown).text = "rate_limit"],
     scores |-> s.valueScores,
     history |-> IF kind = "generate" THEN <<>> ELSE s.quizHistory,
     remaining |-> IF kind = "generate"
                   THEN TOTAL_QUESTIONS - s.currentQuestionIndex + 1 ELSE 0]

Send(s, kind) ==
    [s EXCEPT !.inflight = Append(@, Request(kind, s)),
              !.issued = Append(@, kind)]

\* What the catch blocks show: the rate-limit text for status 429, else the
\* error's own message.
Message(call, resp) ==
    Some([call |-> call,
          text |-> IF resp.status = 429 THEN "rate_limit" ELSE resp.message])

\* Mutant: the request is sent without raising isLoading.
fetchNextPhase2Question_notLoading(s) ==
    IF s.quizPhase # "phase2" THEN s
    ELSE Send([s EXCEPT !.errorMessage = Null, !.retryPossible = FALSE],
              "generate")

\* async function fetchNextPhase2Question(), to its await
fetchNextPhase2Question(s) ==
    IF s.quizPhase # "phase2" THEN s
    ELSE Send([s EXCEPT !.isLoading = TRUE, !.errorMessage = Null,
                        !.retryPossible = FALSE],
              "generate")

\* function setCurrentQuestion()
setCurrentQuestion(s) ==
    LET index == s.currentQuestionIndex IN
    IF s.quizPhase = "phase1" /\ index > 0 /\ index <= TOTAL_PHASE_1_QUESTIONS
    THEN [s EXCEPT !.currentQuestion = ArrayGet(s.phase1Questions, index - 1)]
    ELSE IF s.quizPhase = "phase2" /\ s.currentPhase2Question # Null
    THEN [s EXCEPT !.currentQuestion = s.currentPhase2Question]
    ELSE IF s.quizPhase = "phase2" /\ s.currentPhase2Question = Null
            /\ ~s.isLoading
    THEN fetchNextPhase2Question(s)
    ELSE [s EXCEPT !.currentQuestion = Null]

\* Mutant: a failed request ends the quiz in phase error, with no retry.
fetchNextPhase2Question_then_toError(s, resp) ==
    IF resp.ok
    THEN LET s1 == [s EXCEPT !.currentPhase2Question = resp.body]
             s2 == setCurrentQuestion(s1)
         IN  [s2 EXCEPT !.isLoading = FALSE]
    ELSE [quizPhase_set(s, "error")
             EXCEPT !.errorMessage = Message("question", resp),
                    !.retryPossible = FALSE,
                    !.isLoading = FALSE]

\* fetchNextPhase2Question(), from the response on
fetchNextPhase2Question_then(s, resp) ==
    IF resp.ok
    THEN LET s1 == [s EXCEPT !.currentPhase2Question = resp.body]
             s2 == setCurrentQuestion(s1)
         IN  [s2 EXCEPT !.isLoading = FALSE]
    ELSE [s EXCEPT !.errorMessage = Message("question", resp),
                   !.retryPossible = TRUE,
                   !.isLoading = FALSE]

\* async function generateReviewText(), to its await
generateReviewText(s) ==
    IF s.evaluatedTop5 = Null
    THEN [s EXCEPT !.errorMessage =
                       Some([call |-> "review", text |-> "analysis first"]),
                   !.retryPossible = TRUE,
                   !.isLoading = FALSE]
    ELSE Send([s EXCEPT !.isLoading = TRUE, !.errorMessage = Null,
                        !.retryPossible = FALSE],
              "review")

\* Mutant: a failed review request ends the quiz in phase error, with no retry.
generateReviewText_then_toError(s, resp) ==
    IF resp.ok /\ Val(resp.body).reviewText # <<>>
    THEN LET s1 == [s EXCEPT !.reviewText = Some(Val(resp.body).reviewText)]
             s2 == quizPhase_set(s1, "results")
         IN  [s2 EXCEPT !.isLoading = FALSE]
    ELSE [quizPhase_set(s, "error")
             EXCEPT !.errorMessage = Message("review", resp),
                    !.retryPossible = FALSE,
                    !.isLoading = FALSE]

\* generateReviewText(), from the response on
generateReviewText_then(s, resp) ==
    IF resp.ok /\ Val(resp.body).reviewText # <<>>
    THEN LET s1 == [s EXCEPT !.reviewText = Some(Val(resp.body).reviewText)]
             s2 == quizPhase_set(s1, "results")
         IN  [s2 EXCEPT !.isLoading = FALSE]
    ELSE [s EXCEPT !.errorMessage =
                       IF resp.ok
                       THEN Some([call |-> "review", text |-> "invalid data"])
                       ELSE Message("review", resp),
                   !.retryPossible = TRUE,
                   !.isLoading = FALSE]

\* async function evaluateAnswers(), to its await
evaluateAnswers(s) ==
    Send([s EXCEPT !.isLoading = TRUE, !.errorMessage = Null,
                   !.retryPossible = FALSE],
         "evaluate")

\* Mutant: a failed evaluation ends the quiz in phase error.
evaluateAnswers_then_toError(s, resp) ==
    IF resp.ok /\ Len(Val(resp.body).top5Values) = 5
    THEN generateReviewText(
             [s EXCEPT !.evaluatedTop5 = Some(Val(resp.body).top5Values)])
    ELSE [quizPhase_set(s, "error")
             EXCEPT !.errorMessage = Message("analysis", resp),
                    !.retryPossible = FALSE,
                    !.isLoading = FALSE]

\* Mutant: a successful evaluation goes to results without a review.
evaluateAnswers_then_skipsReview(s, resp) ==
    IF resp.ok /\ Len(Val(resp.body).top5Values) = 5
    THEN [quizPhase_set(
              [s EXCEPT !.evaluatedTop5 = Some(Val(resp.body).top5Values)],
              "results")
             EXCEPT !.isLoading = FALSE]
    ELSE [s EXCEPT !.errorMessage = Message("analysis", resp),
                   !.retryPossible = TRUE,
                   !.isLoading = FALSE]

\* evaluateAnswers(), from the response on
evaluateAnswers_then(s, resp) ==
    IF resp.ok /\ Len(Val(resp.body).top5Values) = 5
    THEN generateReviewText(
             [s EXCEPT !.evaluatedTop5 = Some(Val(resp.body).top5Values)])
    ELSE [s EXCEPT !.errorMessage =
                       IF resp.ok
                       THEN Some([call |-> "analysis", text |-> "invalid data"])
                       ELSE Message("analysis", resp),
                   !.retryPossible = TRUE,
                   !.isLoading = FALSE]

\* determinePhaseAndQuestion, case 'evaluating'
determine_evaluating(s) ==
    LET none == [s EXCEPT !.currentQuestion = Null] IN
    IF ~s.isLoading /\ ~s.retryPossible
    THEN IF s.evaluatedTop5 # Null /\ s.reviewText = Null
         THEN generateReviewText(none)
         ELSE IF s.evaluatedTop5 = Null
         THEN evaluateAnswers(none)
         ELSE quizPhase_set(none, "results")
    ELSE none

\* determinePhaseAndQuestion, case 'phase1'
determine_phase1(s) ==
    LET index == s.currentQuestionIndex IN
    IF index > 0 /\ index <= TOTAL_PHASE_1_QUESTIONS
       /\ Len(s.phase1Questions) > 0
    THEN quizPhase_set(
             [s EXCEPT !.currentQuestion =
                           ArrayGet(s.phase1Questions, index - 1)],
             "phase1")
    ELSE [s EXCEPT !.currentQuestion = Null]

\* Mutant: the fetch is not gated by the retry flag.
determine_phase2_ignoresRetry(s) ==
    LET index == s.currentQuestionIndex IN
    IF index > TOTAL_PHASE_1_QUESTIONS /\ index <= TOTAL_QUESTIONS
    THEN LET s1 == quizPhase_set(s, "phase2") IN
         IF s.currentPhase2Question = Null /\ ~s.isLoading
         THEN fetchNextPhase2Question(s1)
         ELSE IF s.currentPhase2Question # Null
         THEN [s1 EXCEPT !.currentQuestion = s.currentPhase2Question]
         ELSE s1
    ELSE [s EXCEPT !.currentQuestion = Null]

\* Mutant: the fetch is not gated by isLoading.
determine_phase2_ungated(s) ==
    LET index == s.currentQuestionIndex IN
    IF index > TOTAL_PHASE_1_QUESTIONS /\ index <= TOTAL_QUESTIONS
    THEN LET s1 == quizPhase_set(s, "phase2") IN
         IF s.currentPhase2Question = Null /\ ~s.retryPossible
         THEN fetchNextPhase2Question(s1)
         ELSE IF s.currentPhase2Question # Null
         THEN [s1 EXCEPT !.currentQuestion = s.currentPhase2Question]
         ELSE s1
    ELSE [s EXCEPT !.currentQuestion = Null]

\* determinePhaseAndQuestion, case 'phase2'
determine_phase2(s) ==
    LET index == s.currentQuestionIndex IN
    IF index > TOTAL_PHASE_1_QUESTIONS /\ index <= TOTAL_QUESTIONS
    THEN LET s1 == quizPhase_set(s, "phase2") IN
         IF s.currentPhase2Question = Null /\ ~s.isLoading /\ ~s.retryPossible
         THEN fetchNextPhase2Question(s1)
         ELSE IF s.currentPhase2Question # Null
         THEN [s1 EXCEPT !.currentQuestion = s.currentPhase2Question]
         ELSE s1
    ELSE [s EXCEPT !.currentQuestion = Null]

\* function determinePhaseAndQuestion(phase = $quizPhase, index = $currentQuestionIndex)
determinePhaseAndQuestion(s) ==
    LET s0 == IF ~s.isLoading /\ ~s.retryPossible
              THEN [s EXCEPT !.errorMessage = Null] ELSE s
    IN
    CASE s.quizPhase \in {"start", "results", "error"} ->
            [s0 EXCEPT !.currentQuestion = Null]
      [] s.quizPhase = "evaluating" -> determine_evaluating(s0)
      [] s.quizPhase = "phase1" -> determine_phase1(s0)
      [] s.quizPhase = "phase2" -> determine_phase2(s0)
      [] OTHER -> quizPhase_set([s0 EXCEPT !.currentQuestion = Null], "start")

\* $: if (browser && !showResumePrompt) determinePhaseAndQuestion($quizPhase, $currentQuestionIndex)
\* run once per update of the component, when a dependency was invalidated.
Flush(s) ==
    IF s.dirty /\ ~s.showResumePrompt THEN determinePhaseAndQuestion(s) ELSE s

\* An assignment to the local showResumePrompt invalidates it when it changes.
showResumePrompt_set(s, v) ==
    IF s.showResumePrompt = v THEN s
    ELSE [s EXCEPT !.showResumePrompt = v, !.dirty = TRUE]


(***************************************************************************)
(* handleAnswer: scoring, history, advance.                                *)
(***************************************************************************)
\* What QuestionCard passes to onAnswer: one option, or the array of all
\* options in rank order.
OneOption(o) == [isArray |-> FALSE, option |-> Some(o), ranked |-> <<>>]

Ranked(os) == [isArray |-> TRUE, option |-> Null, ranked |-> os]

\* QuestionCard.svelte: the answers the card of question q can submit.
Selections(q) ==
    CASE q.type \in {"simple_choice", "forced_choice"} ->
            {OneOption(o) : o \in Range(q.options)}
      [] q.type = "ranking" ->
            {Ranked([i \in DOMAIN p |-> q.options[p[i]]]) :
                 p \in Permutations_(DOMAIN q.options)}
      [] OTHER -> {}

\* Mutant: updatedScores[value]++ without the hasOwnProperty test, which
\* creates the key of an unknown hint value (its NaN is written 0 here).
RECURSIVE AddHints_unguarded(_, _, _)
AddHints_unguarded(scores, hints, i) ==
    IF i > Len(hints) THEN scores
    ELSE AddHints_unguarded(
             [k \in DOMAIN scores \cup {hints[i]} |->
                  IF k \notin DOMAIN scores THEN 0
                  ELSE IF k = hints[i] THEN scores[k] + 1 ELSE scores[k]],
             hints, i + 1)

\* Mutant: a hint value is given two points.
RECURSIVE AddHints_twoPoints(_, _, _)
AddHints_twoPoints(scores, hints, i) ==
    IF i > Len(hints) THEN scores
    ELSE AddHints_twoPoints(IF hints[i] \in DOMAIN scores
                            THEN [scores EXCEPT ![hints[i]] = @ + 2] ELSE scores,
                            hints, i + 1)

\* value_area_hint.forEach((value) => { if (hasOwnProperty(value)) updatedScores[value]++ })
RECURSIVE AddHints(_, _, _)
AddHints(scores, hints, i) ==
    IF i > Len(hints) THEN scores
    ELSE AddHints(IF hints[i] \in DOMAIN scores
                  THEN [scores EXCEPT ![hints[i]] = @ + 1] ELSE scores,
                  hints, i + 1)

\* Mutant: a text that names no compared value counts for the first one.
ScoreForcedChoice_defaultsToFirst(scores, text, comparedValues) ==
    LET found == Find(comparedValues, text, 1)
        chosenValue == IF found = Null /\ Len(comparedValues) > 0
                       THEN Some(comparedValues[1]) ELSE found
        otherValue == FindOther(comparedValues, chosenValue, 1)
        s1 == IF chosenValue # Null /\ Val(chosenValue) \in DOMAIN scores
              THEN [scores EXCEPT ![Val(chosenValue)] = @ + 2] ELSE scores
    IN  IF otherValue # Null /\ Val(otherValue) \in DOMAIN s1
        THEN [s1 EXCEPT ![Val(otherValue)] = @ - 1] ELSE s1

\* forced_choice: +2 to the value the chosen text names, -1 to the other.
ScoreForcedChoice(scores, text, comparedValues) ==
    LET chosenValue == Find(comparedValues, text, 1)
        otherValue == FindOther(comparedValues, chosenValue, 1)
        s1 == IF chosenValue # Null /\ Val(chosenValue) \in DOMAIN scores
              THEN [scores EXCEPT ![Val(chosenValue)] = @ + 2] ELSE scores
    IN  IF otherValue # Null /\ Val(otherValue) \in DOMAIN s1
        THEN [s1 EXCEPT ![Val(otherValue)] = @ - 1] ELSE s1

\* Mutant: the points are taken from the 0-based index, not from the rank.
RECURSIVE ScoreRanking_zeroBasedRank(_, _, _, _)
ScoreRanking_zeroBasedRank(scores, rankedOptions, comparedValues, i) ==
    IF i > Len(rankedOptions) THEN scores
    ELSE LET points == Max(0, 4 - (i - 1))
             value == Find(comparedValues, rankedOptions[i].text, 1)
         IN  ScoreRanking_zeroBasedRank(
                 IF value # Null /\ Val(value) \in DOMAIN scores
                 THEN [scores EXCEPT ![Val(value)] = @ + points]
                 ELSE scores,
                 rankedOptions, comparedValues, i + 1)

\* rankedOptions.forEach((option, index) => ... += Math.max(0, 4 - (index + 1)))
RECURSIVE ScoreRanking(_, _, _, _)
ScoreRanking(scores, rankedOptions, comparedValues, i) ==
    IF i > Len(rankedOptions) THEN scores
    ELSE LET points == Max(0, 4 - i)
             value == Find(comparedValues, rankedOptions[i].text, 1)
         IN  ScoreRanking(IF value # Null /\ Val(value) \in DOMAIN scores
                          THEN [scores EXCEPT ![Val(value)] = @ + points]
                          ELSE scores,
                          rankedOptions, comparedValues, i + 1)

\* Which branch of handleAnswer's if-chains the answer takes.
AnswerKind(q, sel) ==
    IF q.type = "simple_choice" /\ ~sel.isArray
       /\ "value_area_hint" \in DOMAIN Val(sel.option)
    THEN "simple_choice"
    ELSE IF q.type = "forced_choice" /\ ~sel.isArray
            /\ "text" \in DOMAIN Val(sel.option)
    THEN "forced_choice"
    ELSE IF q.type = "ranking" /\ sel.isArray THEN "ranking"
    ELSE "unknown"

\* Mutant: updatedScores begins as a fresh tally, not as a copy of $valueScores.
handleAnswer_score_fromZero(scores, q, sel) ==
    CASE AnswerKind(q, sel) = "simple_choice" ->
            AddHints(initializeScores, Val(sel.option).value_area_hint, 1)
      [] AnswerKind(q, sel) = "forced_choice" ->
            ScoreForcedChoice(initializeScores, Val(sel.option).text,
                              q.values_being_compared)
      [] AnswerKind(q, sel) = "ranking" ->
            ScoreRanking(initializeScores, sel.ranked,
                         q.values_being_compared, 1)
      [] OTHER -> scores

\* handleAnswer: --- Apply Scoring Logic ---
handleAnswer_score(scores, q, sel) ==
    CASE AnswerKind(q, sel) = "simple_choice" ->
            AddHints(scores, Val(sel.option).value_area_hint, 1)
      [] AnswerKind(q, sel) = "forced_choice" ->
            ScoreForcedChoice(scores, Val(sel.option).text,
                              q.values_being_compared)
      [] AnswerKind(q, sel) = "ranking" ->
            ScoreRanking(scores, sel.ranked, q.values_being_compared, 1)
      [] OTHER -> scores

\* handleAnswer: --- Record Answer in History --- (timestamp: Date.now() is
\* left out of the record; answer is always a list of texts here, with
\* answerIsArray telling the ranking's list from a single text)
handleAnswer_record(q, sel) ==
    LET kind == AnswerKind(q, sel) IN
    [questionId |-> q.id,
     questionText |-> q.text,
     questionType |-> q.type,
     answer |-> IF kind \in {"simple_choice", "forced_choice"}
                THEN <<Val(sel.option).text>>
                ELSE IF kind = "ranking"
                THEN [i \in DOMAIN sel.ranked |-> sel.ranked[i].text]
                ELSE << <<"Unknown">> >>,
     answerIsArray |-> kind = "ranking",
     valuesInvolved |-> IF kind = "simple_choice"
                        THEN Val(sel.option).value_area_hint
                        ELSE IF kind \in {"forced_choice", "ranking"}
                        THEN q.values_being_compared
                        ELSE <<>>]

\* Mutant: the phase-1 bound tested with < instead of <=.
handleAnswer_advance_offByOne(s) ==
    LET nextIndex == s.currentQuestionIndex + 1 IN
    IF nextIndex < TOTAL_PHASE_1_QUESTIONS
    THEN setCurrentQuestion(
             quizPhase_set(currentQuestionIndex_set(s, nextIndex), "phase1"))
    ELSE IF nextIndex <= TOTAL_QUESTIONS
    THEN [quizPhase_set(currentQuestionIndex_set(s, nextIndex), "phase2")
             EXCEPT !.currentPhase2Question = Null]
    ELSE [currentQuestionIndex_set(quizPhase_set(s, "evaluating"), nextIndex)
             EXCEPT !.currentQuestion = Null, !.currentPhase2Question = Null]

\* Mutant: the held phase-2 question is not cleared when the quiz advances.
handleAnswer_advance_keepsQuestion(s) ==
    LET nextIndex == s.currentQuestionIndex + 1 IN
    IF nextIndex <= TOTAL_PHASE_1_QUESTIONS
    THEN setCurrentQuestion(
             quizPhase_set(currentQuestionIndex_set(s, nextIndex), "phase1"))
    ELSE IF nextIndex <= TOTAL_QUESTIONS
    THEN quizPhase_set(currentQuestionIndex_set(s, nextIndex), "phase2")
    ELSE [currentQuestionIndex_set(quizPhase_set(s, "evaluating"), nextIndex)
             EXCEPT !.currentQuestion = Null]

\* Mutant: after the last question the quiz goes straight to results.
handleAnswer_advance_toResults(s) ==
    LET nextIndex == s.currentQuestionIndex + 1 IN
    IF nextIndex <= TOTAL_PHASE_1_QUESTIONS
    THEN setCurrentQuestion(
             quizPhase_set(currentQuestionIndex_set(s, nextIndex), "phase1"))
    ELSE IF nextIndex <= TOTAL_QUESTIONS
    THEN [quizPhase_set(currentQuestionIndex_set(s, nextIndex), "phase2")
             EXCEPT !.currentPhase2Question = Null]
    ELSE [currentQuestionIndex_set(quizPhase_set(s, "results"), nextIndex)
             EXCEPT !.currentQuestion = Null, !.currentPhase2Question = Null]

\* handleAnswer: --- Advance Quiz ---
handleAnswer_advance(s) ==
    LET nextIndex == s.currentQuestionIndex + 1 IN
    IF nextIndex <= TOTAL_PHASE_1_QUESTIONS
    THEN setCurrentQuestion(
             quizPhase_set(currentQuestionIndex_set(s, nextIndex), "phase1"))
    ELSE IF nextIndex <= TOTAL_QUESTIONS
    THEN [quizPhase_set(currentQuestionIndex_set(s, nextIndex), "phase2")
             EXCEPT !.currentPhase2Question = Null]
    ELSE [currentQuestionIndex_set(quizPhase_set(s, "evaluating"), nextIndex)
             EXCEPT !.currentQuestion = Null, !.currentPhase2Question = Null]

\* if (!currentQuestion || isLoading || $retryPossible) return;
AnswerAccepted(s) == s.currentQuestion # Null /\ ~s.isLoading /\ ~s.retryPossible

\* Mutant: the record is put at the head of the history.
handleAnswer_prepends(s, sel) ==
    IF ~AnswerAccepted(s) THEN s
    ELSE LET q == Val(s.currentQuestion)
             s1 == valueScores_set(s, handleAnswer_score(s.valueScores, q, sel))
             s2 == quizHistory_set(
                       s1, <<handleAnswer_record(q, sel)>> \o s1.quizHistory)
         IN  handleAnswer_advance(s2)

\* Mutant: handleAnswer without its early return.
handleAnswer_unguarded(s, sel) ==
    LET q == IF s.currentQuestion # Null THEN Val(s.currentQuestion)
             ELSE Phase1Question(1)
        s1 == valueScores_set(s, handleAnswer_score(s.valueScores, q, sel))
        s2 == quizHistory_set(
                  s1, Append(s1.quizHistory, handleAnswer_record(q, sel)))
    IN  handleAnswer_advance(s2)

\* Mutant: the quiz advances, and the next question is requested, before the
\* answer's scores are stored.
handleAnswer_requestsBeforeScoring(s, sel) ==
    IF ~AnswerAccepted(s) THEN s
    ELSE LET q == Val(s.currentQuestion)
             s1 == quizHistory_set(
                       s, Append(s.quizHistory, handleAnswer_record(q, sel)))
             s2 == Flush(handleAnswer_advance(s1))
         IN  valueScores_set(s2, handleAnswer_score(s.valueScores, q, sel))

\* function handleAnswer(selectedOption)
handleAnswer(s, sel) ==
    IF ~AnswerAccepted(s) THEN s
    ELSE LET q == Val(s.currentQuestion)
             s1 == valueScores_set(s, handleAnswer_score(s.valueScores, q, sel))
             s2 == quizHistory_set(
                       s1, Append(s1.quizHistory, handleAnswer_record(q, sel)))
         IN  handleAnswer_advance(s2)

\* Mutant: the quiz starts at the 0-based position of the first question.
startQuiz_zeroBased(s) ==
    setCurrentQuestion(
        currentQuestionIndex_set(quizPhase_set(resetQuiz(s), "phase1"), 0))

\* function startQuiz()
startQuiz(s) ==
    setCurrentQuestion(
        currentQuestionIndex_set(quizPhase_set(resetQuiz(s), "phase1"), 1))

\* function startNewQuiz()
startNewQuiz(s) ==
    quizPhase_set(resetQuiz(showResumePrompt_set(s, FALSE)), "start")

\* Mutant: the resumed phase is always phase1.
resumeQuiz_alwaysPhase1(s) ==
    determinePhaseAndQuestion(
        quizPhase_set(showResumePrompt_set(s, FALSE), "phase1"))

\* function resumeQuiz()
resumeQuiz(s) ==
    LET s1 == showResumePrompt_set(s, FALSE)
        s2 == IF s.currentQuestionIndex <= TOTAL_PHASE_1_QUESTIONS
              THEN quizPhase_set(s1, "phase1")
              ELSE IF s.currentQuestionIndex <= TOTAL_QUESTIONS
              THEN quizPhase_set(s1, "phase2")
              ELSE s1
    IN  determinePhaseAndQuestion(s2)

\* onMount, once /phase1_questions.json has arrived
onMount_then(s) ==
    LET s1 == [s EXCEPT !.phase1Questions = Phase1Asset, !.mount = "loaded"] IN
    IF s.localStorage.valueScores # Null /\ s.currentQuestionIndex > 0
    THEN IF s.quizPhase = "results" THEN s1
         ELSE IF s.quizPhase = "evaluating" THEN determinePhaseAndQuestion(s1)
         ELSE IF s.currentQuestionIndex <= TOTAL_QUESTIONS
         THEN showResumePrompt_set(s1, TRUE)
         ELSE quizPhase_set(resetQuiz(s1), "start")
    ELSE IF s.currentQuestionIndex = 0
    THEN quizPhase_set(clearLocalStorage(s1), "start")
    ELSE s1

\* onMount, when the fetch of the asset fails
onMount_catch(s) ==
    LET s1 == [s EXCEPT !.errorMessage =
                            Some([call |-> "load", text |-> "load failed"]),
                        !.mount = "failed"]
    IN  [quizPhase_set(s1, "error") EXCEPT !.retryPossible = FALSE]

(***************************************************************************)
(* lib/stores at module load, then the component's creation: the stores    *)
(* take their initial values from the durable store, each persistence      *)
(* subscription writes its store's value back at once, and the reactive    *)
(* statement runs once before onMount.                                     *)
(***************************************************************************)
\* Mutant: a page loaded in phase results holds a result and a review again.
PageLoad_keepsResults(ls) ==
    LET phase == IF ls.quizPhase # Null THEN Val(ls.quizPhase) ELSE "start"
        scores == IF ls.valueScores # Null THEN JSONparse(Val(ls.valueScores))
                  ELSE initializeScores
        index == IF ls.currentQuestionIndex # Null
                 THEN parseInt(Val(ls.currentQuestionIndex)) ELSE 0
        history == IF ls.quizHistory # Null THEN JSONparse(Val(ls.quizHistory))
                   ELSE <<>>
        s == [quizPhase |-> phase, valueScores |-> scores,
              currentQuestionIndex |-> index, quizHistory |-> history,
              currentPhase2Question |-> Null, errorMessage |-> Null,
              retryPossible |-> FALSE,
              evaluatedTop5 |-> IF phase = "results"
                                THEN Some(Top5Content.top5Values) ELSE Null,
              reviewText |-> IF phase = "results"
                             THEN Some(<<"because">>) ELSE Null,
              localStorage |->
                  [quizPhase |-> Some(phase),
                   valueScores |-> Some(JSONstringify(scores)),
                   currentQuestionIndex |-> Some(toString(index)),
                   quizHistory |-> Some(JSONstringify(history))],
              phase1Questions |-> <<>>, currentQuestion |-> Null,
              isLoading |-> FALSE, showResumePrompt |-> FALSE,
              selectedRanking |-> <<>>,
              mount |-> "loading", inflight |-> <<>>,
              dirty |-> FALSE, issued |-> <<>>,
              op |-> "pageLoad", shown |-> Null, sel |-> Null]
    IN  determinePhaseAndQuestion(s)

PageLoad(ls) ==
    LET phase == IF ls.quizPhase # Null THEN Val(ls.quizPhase) ELSE "start"
        scores == IF ls.valueScores # Null THEN JSONparse(Val(ls.valueScores))
                  ELSE initializeScores
        index == IF ls.currentQuestionIndex # Null
                 THEN parseInt(Val(ls.currentQuestionIndex)) ELSE 0
        history == IF ls.quizHistory # Null THEN JSONparse(Val(ls.quizHistory))
                   ELSE <<>>
        s == [quizPhase |-> phase, valueScores |-> scores,
              currentQuestionIndex |-> index, quizHistory |-> history,
              currentPhase2Question |-> Null, errorMessage |-> Null,
              retryPossible |-> FALSE, evaluatedTop5 |-> Null,
              reviewText |-> Null,
              localStorage |->
                  [quizPhase |-> Some(phase),
                   valueScores |-> Some(JSONstringify(scores)),
                   currentQuestionIndex |-> Some(toString(index)),
                   quizHistory |-> Some(JSONstringify(history))],
              phase1Questions |-> <<>>, currentQuestion |-> Null,
              isLoading |-> FALSE, showResumePrompt |-> FALSE,
              selectedRanking |-> <<>>,
              mount |-> "loading", inflight |-> <<>>,
              dirty |-> FALSE, issued |-> <<>>,
              op |-> "pageLoad", shown |-> Null, sel |-> Null]
    IN  determinePhaseAndQuestion(s)


(***************************************************************************)
(* lib/components/QuestionCard.svelte: ranking by rank buttons.            *)
(* selectedRanking maps each assigned rank to the option put there (the    *)
(* option's index in question.options: opt === option compares objects).   *)
(***************************************************************************)
\* Mutant: the option keeps the ranks it was given before.
handleRankSelect_keepsOtherRanks(ranking, option, rank) ==
    [r \in DOMAIN ranking \cup {rank} |->
         IF r = rank THEN option ELSE ranking[r]]

\* handleRankSelect, to its check: delete the option from its other ranks,
\* then selectedRanking[rank] = option.
handleRankSelect(ranking, option, rank) ==
    LET kept == {r \in DOMAIN ranking : ~(ranking[r] = option /\ r # rank)}
    IN  [r \in kept \cup {rank} |-> IF r = rank THEN option ELSE ranking[r]]

\* if (Object.keys(selectedRanking).length === question.options.length)
RankingComplete(ranking, q) == Cardinality(DOMAIN ranking) = Len(q.options)

\* Object.entries(selectedRanking).sort(by rank).map(([, opt]) => opt)
RECURSIVE rankedOptions(_, _)
rankedOptions(ranking, q) ==
    IF DOMAIN ranking = {} THEN <<>>
    ELSE LET first == CHOOSE r \in DOMAIN ranking :
                          \A x \in DOMAIN ranking : r <= x
         IN  <<q.options[ranking[first]]>>
                 \o rankedOptions([x \in DOMAIN ranking \ {first} |-> ranking[x]],
                                  q)

\* disabled={selectedRanking[rank] && selectedRanking[rank] !== option}
RankButtonEnabled(ranking, option, rank) ==
    IF rank \in DOMAIN ranking THEN ranking[rank] = option ELSE TRUE

(***************************************************************************)
(* What the template renders, i.e. which handlers the user can reach.      *)
(***************************************************************************)
InQuiz == ~showResumePrompt /\ quizPhase \in {"phase1", "phase2"}

\* {#if currentQuestion && !isLoading && !$errorMessage} <QuestionCard .../>
QuestionCardShown ==
    InQuiz /\ currentQuestion # Null /\ ~isLoading /\ errorMessage = Null

\* {#if $errorMessage && !isLoading} ... {#if $retryPossible} Retry
RetryQuestionOffered ==
    InQuiz /\ errorMessage # Null /\ ~isLoading /\ retryPossible

EvaluationErrorShown ==
    ~showResumePrompt /\ quizPhase = "evaluating" /\ errorMessage # Null
        /\ ~isLoading

\* {#if $evaluatedTop5 && !$reviewText} Retry Insights {:else} Retry Analysis
RetryReviewOffered ==
    EvaluationErrorShown /\ retryPossible
        /\ evaluatedTop5 # Null /\ reviewText = Null

RetryEvaluationOffered ==
    EvaluationErrorShown /\ retryPossible
        /\ ~(evaluatedTop5 # Null /\ reviewText = Null)

\* The four "Restart Quiz" buttons, all on:click={resetQuiz}.
RestartOffered ==
    /\ ~showResumePrompt
    /\ \/ InQuiz /\ errorMessage # Null /\ ~isLoading /\ ~retryPossible
       \/ EvaluationErrorShown /\ ~retryPossible
       \/ quizPhase = "results"
       \/ quizPhase = "error" /\ ~isLoading

(***************************************************************************)
(* lib/components/ResultsDisplay.svelte: the list it shows.                *)
(***************************************************************************)
\* finalScores[value] ?? 0
ScoreOrZero(finalScores, value) ==
    IF value \in DOMAIN finalScores THEN finalScores[value] ELSE 0

\* Mutant: a value is put before the values of equal score.
InsertByScore_beforeEquals(sorted, value, finalScores) ==
    LET before == {k \in DOMAIN sorted :
                       ScoreOrZero(finalScores, sorted[k])
                           > ScoreOrZero(finalScores, value)}
        n == Cardinality(before)
    IN  SubSeq(sorted, 1, n) \o <<value>> \o SubSeq(sorted, n + 1, Len(sorted))

\* Array.prototype.sort is stable: under the comparator scoreB - scoreA a
\* value comes after the values before it in the array whose score is not
\* lower.  sorted is in that order already.
InsertByScore(sorted, value, finalScores) ==
    LET before == {k \in DOMAIN sorted :
                       ScoreOrZero(finalScores, sorted[k])
                           >= ScoreOrZero(finalScores, value)}
        n == Cardinality(before)
    IN  SubSeq(sorted, 1, n) \o <<value>> \o SubSeq(sorted, n + 1, Len(sorted))

\* [...values].sort((valueA, valueB) => scoreB - scoreA), over values[1..n]
RECURSIVE SortByScore(_, _, _)
SortByScore(values, finalScores, n) ==
    IF n = 0 THEN <<>>
    ELSE InsertByScore(SortByScore(values, finalScores, n - 1),
                       values[n], finalScores)

\* $: sortedTopValues = topValuesResult ? [...topValuesResult].sort(...) : null
sortedTopValues(topValuesResult, finalScores) ==
    IF topValuesResult = Null THEN Null
    ELSE Some(SortByScore(Val(topValuesResult), finalScores,
                          Len(Val(topValuesResult))))

(***************************************************************************)
(* Actions.                                                                *)
(***************************************************************************)
\* The phases a quiz goes through, and the handlers by which the user
\* begins one anew.
QuizPath == {"phase1", "phase2", "evaluating", "results"}

UserResets == {"resetQuiz", "startNewQuiz", "startQuiz"}

\* The card is a child of the {#if currentQuestion && !isLoading &&
\* !$errorMessage} block: after a task that leaves the block's condition false
\* the card is destroyed, and a later card begins with selectedRanking = {}.
QuestionCardRendered(s) ==
    /\ ~s.showResumePrompt /\ s.quizPhase \in {"phase1", "phase2"}
    /\ s.currentQuestion # Null /\ ~s.isLoading /\ s.errorMessage = Null

\* The state a task leaves, with the step recorded in last: the task, the
\* phase, the position, the retry flag, the tally, the history and the
\* question it began with, the answer it submitted, the requests it sent,
\* the origin of the request it answered, and whether it succeeded (an
\* answer: was accepted; a response: was a success).
Commit(s, req, ok) ==
    /\ quizPhase' = s.quizPhase
    /\ valueScores' = s.valueScores
    /\ currentQuestionIndex' = s.currentQuestionIndex
    /\ quizHistory' = s.quizHistory
    /\ currentPhase2Question' = s.currentPhase2Question
    /\ errorMessage' = s.errorMessage
    /\ retryPossible' = s.retryPossible
    /\ evaluatedTop5' = s.evaluatedTop5
    /\ reviewText' = s.reviewText
    /\ localStorage' = s.localStorage
    /\ phase1Questions' = s.phase1Questions
    /\ currentQuestion' = s.currentQuestion
    /\ isLoading' = s.isLoading
    /\ showResumePrompt' = s.showResumePrompt
    /\ selectedRanking' = IF QuestionCardRendered(s) THEN s.selectedRanking
                          ELSE <<>>
    /\ mount' = s.mount
    /\ inflight' = s.inflight
    /\ last' = [op |-> s.op, phase |-> quizPhase,
                index |-> currentQuestionIndex, issued |-> s.issued,
                armed |-> retryPossible,
                scores |-> valueScores, history |-> quizHistory,
                question |-> currentQuestion, sel |-> s.sel,
                origin |-> IF req = Null THEN Null ELSE Some(Val(req).origin),
                ok |-> ok]
    /\ visited' = (IF s.op \in UserResets THEN {} ELSE visited)
                       \cup ({s.quizPhase} \cap QuizPath)

\* The user's task: the handler, then the component's update.
UserTask(s) == Commit(Flush(s), Null, TRUE)

\* inflight without its i-th request.
Received(s, i) ==
    [s EXCEPT !.inflight = SubSeq(@, 1, i - 1) \o SubSeq(@, i + 1, Len(@))]

\* A response's task.
ResponseTask(s, req, ok) == Commit(Flush(s), Some(req), ok)

\* The page is loaded (or reloaded): pending fetches of the old page are gone.
Reload ==
    /\ mount \in {"loading", "loaded", "failed"}
    /\ Commit(PageLoad(localStorage), Null, TRUE)

MountLoaded ==
    /\ mount = "loading"
    /\ Commit(Flush(onMount_then(Here("onMount"))), Null, TRUE)

MountFailed ==
    /\ mount = "loading"
    /\ Commit(Flush(onMount_catch(Here("onMount"))), Null, FALSE)

StartQuiz ==
    /\ ~showResumePrompt /\ quizPhase = "start"
    /\ UserTask(startQuiz(Here("startQuiz")))

ResumeQuiz ==
    /\ showResumePrompt
    /\ UserTask(resumeQuiz(Here("resumeQuiz")))

StartNewQuiz ==
    /\ showResumePrompt
    /\ UserTask(startNewQuiz(Here("startNewQuiz")))

RestartQuiz ==
    /\ RestartOffered
    /\ UserTask(resetQuiz(Here("resetQuiz")))

Answer ==
    /\ QuestionCardShown
    /\ \E sel \in Selections(Val(currentQuestion)) :
           Commit(Flush(handleAnswer(
                      [Here("handleAnswer") EXCEPT !.sel = Some(sel)], sel)),
                  Null, AnswerAccepted(Here("handleAnswer")))

RetryFetchQuestion ==
    /\ RetryQuestionOffered
    /\ UserTask(fetchNextPhase2Question(Here("retryFetchQuestion")))

RetryEvaluation ==
    /\ RetryEvaluationOffered
    /\ UserTask(evaluateAnswers(Here("retryEvaluation")))

RetryReview ==
    /\ RetryReviewOffered
    /\ UserTask(generateReviewText(Here("retryReview")))

GenerationResponds ==
    \E i \in DOMAIN inflight :
        /\ inflight[i].kind = "generate"
        /\ \E resp \in GenerationResponses :
               ResponseTask(
                   fetchNextPhase2Question_then(
                       Received(Here("generationResponds"), i), resp),
                   inflight[i], resp.ok)

EvaluationResponds ==
    \E i \in DOMAIN inflight :
        /\ inflight[i].kind = "evaluate"
        /\ \E resp \in EvaluationResponses(inflight[i]) :
               ResponseTask(
                   evaluateAnswers_then(
                       Received(Here("evaluationResponds"), i), resp),
                   inflight[i], resp.ok)

ReviewResponds ==
    \E i \in DOMAIN inflight :
        /\ inflight[i].kind = "review"
        /\ \E resp \in ReviewResponses(inflight[i]) :
               ResponseTask(
                   generateReviewText_then(
                       Received(Here("reviewResponds"), i), resp),
                   inflight[i], resp.ok)

Init ==
    LET s == PageLoad(EmptyStorage) IN
    /\ quizPhase = s.quizPhase
    /\ valueScores = s.valueScores
    /\ currentQuestionIndex = s.currentQuestionIndex
    /\ quizHistory = s.quizHistory
    /\ currentPhase2Question = s.currentPhase2Question
    /\ errorMessage = s.errorMessage
    /\ retryPossible = s.retryPossible
    /\ evaluatedTop5 = s.evaluatedTop5
    /\ reviewText = s.reviewText
    /\ localStorage = s.localStorage
    /\ phase1Questions = s.phase1Questions
    /\ currentQuestion = s.currentQuestion
    /\ isLoading = s.isLoading
    /\ showResumePrompt = s.showResumePrompt
    /\ selectedRanking = s.selectedRanking
    /\ mount = s.mount
    /\ inflight = s.inflight
    /\ last = [op |-> "pageLoad", phase |-> "start", index |-> 0,
               issued |-> <<>>, armed |-> FALSE,
               scores |-> s.valueScores, history |-> s.quizHistory,
               question |-> Null, sel |-> Null, origin |-> Null,
               ok |-> TRUE]
    /\ visited = {}

Next ==
    \/ Reload
    \/ MountLoaded
    \/ MountFailed
    \/ StartQuiz
    \/ ResumeQuiz
    \/ StartNewQuiz
    \/ RestartQuiz
    \/ Answer
    \/ RetryFetchQuestion
    \/ RetryEvaluation
    \/ RetryReview
    \/ GenerationResponds
    \/ EvaluationResponds
    \/ ReviewResponds

Spec == Init /\ [][Next]_vars

(***************************************************************************)
(* The scoring of answers: a quiz that is started and answered to its end  *)
(* with every generation succeeding, over the contents of every wording.   *)
(***************************************************************************)
WordedGenerationResponds ==
    \E i \in DOMAIN inflight :
        /\ inflight[i].kind = "generate"
        /\ \E resp \in WordedGenerationResponses :
               ResponseTask(
                   fetchNextPhase2Question_then(
                       Received(Here("generationResponds"), i), resp),
                   inflight[i], resp.ok)

ScoringNext ==
    \/ MountLoaded
    \/ StartQuiz
    \/ Answer
    \/ WordedGenerationResponds

ScoringSpec == Init /\ [][ScoringNext]_vars

(***************************************************************************)
(* The guard of handleAnswer: a quiz with failing and retried generations, *)
(* in which handleAnswer is also called when the template does not render  *)
(* the question card (the held question's answers, or those of the first   *)
(* question when none is held).                                            *)
(***************************************************************************)
AnswerUnrendered ==
    /\ ~QuestionCardShown
    /\ \E sel \in Selections(IF currentQuestion # Null THEN Val(currentQuestion)
                              ELSE Phase1Question(1)) :
           Commit(Flush(handleAnswer(
                      [Here("handleAnswer") EXCEPT !.sel = Some(sel)], sel)),
                  Null, AnswerAccepted(Here("handleAnswer")))

HandlerNext ==
    \/ MountLoaded
    \/ StartQuiz
    \/ Answer
    \/ AnswerUnrendered
    \/ RetryFetchQuestion
    \/ GenerationResponds

HandlerSpec == Init /\ [][HandlerNext]_vars

(***************************************************************************)
(* The evaluation: a quiz started once and answered to its results, with   *)
(* failures and retries, over every content of an evaluation.              *)
(***************************************************************************)
ListedEvaluationResponds ==
    \E i \in DOMAIN inflight :
        /\ inflight[i].kind = "evaluate"
        /\ \E resp \in ListedEvaluationResponses(inflight[i]) :
               ResponseTask(
                   evaluateAnswers_then(
                       Received(Here("evaluationResponds"), i), resp),
                   inflight[i], resp.ok)

EvaluationNext ==
    \/ MountLoaded
    \/ StartQuiz
    \/ Answer
    \/ RetryFetchQuestion
    \/ RetryEvaluation
    \/ RetryReview
    \/ GenerationResponds
    \/ ListedEvaluationResponds
    \/ ReviewResponds

EvaluationSpec == Init /\ [][EvaluationNext]_vars

(***************************************************************************)
(* The question card: a quiz started once with every generation answered   *)
(* by a ranking (of four options for the first phase-2 question, of three  *)
(* for the later ones), the ranking answered rank button by rank button.   *)
(***************************************************************************)
RankingGenerationResponses(req) ==
    {GenerateQuestionPOST([outcome |-> "content", content |-> Some(c)]) :
         c \in IF req.origin.index = TOTAL_PHASE_1_QUESTIONS + 1
               THEN {FourOptionsContent} ELSE {RankingContent}}

RankingGenerationResponds ==
    \E i \in DOMAIN inflight :
        /\ inflight[i].kind = "generate"
        /\ \E resp \in RankingGenerationResponses(inflight[i]) :
               ResponseTask(
                   fetchNextPhase2Question_then(
                       Received(Here("generationResponds"), i), resp),
                   inflight[i], resp.ok)

\* A click on an option's button of a simple or forced choice.
ChooseOption ==
    /\ QuestionCardShown
    /\ Val(currentQuestion).type \in {"simple_choice", "forced_choice"}
    /\ \E sel \in Selections(Val(currentQuestion)) :
           Commit(Flush(handleAnswer(
                      [Here("handleAnswer") EXCEPT !.sel = Some(sel)], sel)),
                  Null, AnswerAccepted(Here("handleAnswer")))

\* A click on an enabled rank button of a ranking: handleRankSelect, which
\* calls onAnswer (handleAnswer) once the ranking is complete.
RankSelect ==
    /\ QuestionCardShown
    /\ Val(currentQuestion).type = "ranking"
    /\ LET q == Val(currentQuestion) IN
       \E option \in DOMAIN q.options, rank \in 1..Len(q.options) :
           /\ RankButtonEnabled(selectedRanking, option, rank)
           /\ LET ranking == handleRankSelect(selectedRanking, option, rank)
                  sel == Ranked(rankedOptions(ranking, q))
                  s == Here("handleRankSelect")
              IN  IF RankingComplete(ranking, q)
                  THEN Commit(Flush(handleAnswer(
                                  [s EXCEPT !.selectedRanking = <<>>,
                                            !.sel = Some(sel)], sel)),
                              Null, AnswerAccepted(s))
                  ELSE Commit(Flush([s EXCEPT !.selectedRanking = ranking]),
                              Null, TRUE)

RankingNext ==
    \/ MountLoaded
    \/ StartQuiz
    \/ ChooseOption
    \/ RankSelect
    \/ RankingGenerationResponds

RankingSpec == Init /\ [][RankingNext]_vars

(***************************************************************************)
(* Progress: the sessions in which the asset loads, under the scheduling   *)
(* the claim of progress assumes.  The browser runs every task that is     *)
(* ready (onMount's continuation, a response's continuation); the user     *)
(* answers each question presented, continues at the resume prompt and     *)
(* clicks each retry button offered; a call that is sent again and again   *)
(* does not fail for ever.  Reloads, Start, Start New Quiz and Restart are *)
(* left to the user: they may happen, at any time, or never.               *)
(***************************************************************************)
\* The responses of a session: one content each, and the failure of the
\* page's fetch.
LiveGenerationResponses ==
    {GenerateQuestionPOST([outcome |-> "content",
                           content |-> Some(ForcedChoiceContent)]),
     TransportFailure}

LiveEvaluationResponses(req) ==
    {EvaluateAnswersPOST(req, [outcome |-> "content",
                               content |-> Some(Top5Content)]),
     TransportFailure}

LiveReviewResponses(req) ==
    {GenerateReviewPOST(req, [outcome |-> "content",
                              content |-> Some([reviewText |-> <<"because">>])]),
     TransportFailure}

\* A pending call is answered by resp.
CallResponds(i, resp) ==
    CASE inflight[i].kind = "generate" ->
            ResponseTask(
                fetchNextPhase2Question_then(
                    Received(Here("generationResponds"), i), resp),
                inflight[i], resp.ok)
      [] inflight[i].kind = "evaluate" ->
            ResponseTask(
                evaluateAnswers_then(
                    Received(Here("evaluationResponds"), i), resp),
                inflight[i], resp.ok)
      [] inflight[i].kind = "review" ->
            ResponseTask(
                generateReviewText_then(
                    Received(Here("reviewResponds"), i), resp),
                inflight[i], resp.ok)

LiveResponses(req) ==
    CASE req.kind = "generate" -> LiveGenerationResponses
      [] req.kind = "evaluate" -> LiveEvaluationResponses(req)
      [] req.kind = "review" -> LiveReviewResponses(req)

CallFails ==
    \E i \in DOMAIN inflight :
        \E resp \in LiveResponses(inflight[i]) :
            ~resp.ok /\ CallResponds(i, resp)

CallSucceeds ==
    \E i \in DOMAIN inflight :
        \E resp \in LiveResponses(inflight[i]) :
            resp.ok /\ CallResponds(i, resp)

\* The user goes on with the quiz: answers the question presented, chooses
\* Resume at the prompt, clicks the retry button offered.
UserContinues ==
    \/ Answer
    \/ ResumeQuiz
    \/ RetryFetchQuestion
    \/ RetryEvaluation
    \/ RetryReview

LiveNext ==
    \/ Reload
    \/ MountLoaded
    \/ StartQuiz
    \/ StartNewQuiz
    \/ RestartQuiz
    \/ UserContinues
    \/ CallFails
    \/ CallSucceeds

\* WF_vars(Answer), with ENABLED <<Answer>>_vars written out: the action is
\* enabled exactly when the card is shown, and an answer given then advances
\* the position.
AnswerFairness == []<>(~QuestionCardShown) \/ []<><<Answer>>_vars

Fairness ==
    /\ WF_vars(MountLoaded)
    /\ WF_vars(CallFails \/ CallSucceeds)
    /\ SF_vars(CallSucceeds)
    /\ WF_vars(ResumeQuiz)
    /\ WF_vars(RetryFetchQuestion)
    /\ WF_vars(RetryEvaluation)
    /\ WF_vars(RetryReview)
    /\ AnswerFairness

LiveSpec == Init /\ [][LiveNext]_vars /\ Fairness


(***************************************************************************)
(* Properties.                                                             *)
(***************************************************************************)
AnswerAcceptedIn(phase) ==
    last.op = "handleAnswer" /\ last.ok /\ last.phase = phase

\* C1: an answer accepted in phase1 at position p leaves the position at
\* p + 1, in phase1 if p + 1 <= TOTAL_PHASE_1_QUESTIONS and in phase2 otherwise.
C1_Phase1Advance ==
    AnswerAcceptedIn("phase1") =>
        /\ currentQuestionIndex = last.index + 1
        /\ quizPhase = IF last.index + 1 <= TOTAL_PHASE_1_QUESTIONS
                       THEN "phase1" ELSE "phase2"

C1_Witness ==
    /\ AnswerAcceptedIn("phase1")
    /\ last.index = TOTAL_PHASE_1_QUESTIONS
    /\ quizPhase = "phase2"

\* C2: an answer accepted in phase2 at position p leaves the position at
\* p + 1; if p + 1 <= TOTAL_QUESTIONS the phase is still phase2 and no
\* phase-2 question is held, otherwise the phase is evaluating and no
\* question is held at all.
C2_Phase2Advance ==
    AnswerAcceptedIn("phase2") =>
        /\ currentQuestionIndex = last.index + 1
        /\ currentPhase2Question = Null
        /\ IF last.index + 1 <= TOTAL_QUESTIONS
           THEN quizPhase = "phase2"
           ELSE quizPhase = "evaluating" /\ currentQuestion = Null

C2_Witness ==
    /\ AnswerAcceptedIn("phase2")
    /\ quizPhase = "phase2"
    /\ currentQuestionIndex = TOTAL_QUESTIONS

\* C3: in every reachable state, phase1 implies 1 <= position <=
\* TOTAL_PHASE_1_QUESTIONS and phase2 implies TOTAL_PHASE_1_QUESTIONS <
\* position <= TOTAL_QUESTIONS.
C3_PhasePositionRange ==
    /\ quizPhase = "phase1" =>
           1 <= currentQuestionIndex
               /\ currentQuestionIndex <= TOTAL_PHASE_1_QUESTIONS
    /\ quizPhase = "phase2" =>
           TOTAL_PHASE_1_QUESTIONS < currentQuestionIndex
               /\ currentQuestionIndex <= TOTAL_QUESTIONS

C3_Witness ==
    /\ last.op = "resumeQuiz"
    /\ quizPhase = "phase2"
    /\ currentQuestionIndex = TOTAL_QUESTIONS

\* C4: at most one remote call (generation, evaluation or review) is in
\* flight at any time.
C4_OneCallInFlight == Len(inflight) <= 1

C4_Witness ==
    /\ last.op = "startQuiz"
    /\ Len(inflight) = 1
    /\ inflight[1].origin.by = "pageLoad"


Generations == {i \in DOMAIN last.issued : last.issued[i] = "generate"}

GenerationPending ==
    /\ Len(inflight) = 1
    /\ inflight[1].kind = "generate"
    /\ inflight[1].origin.index = currentQuestionIndex

\* C5: entering a phase-2 position with no question held (by an accepted
\* answer, or on resume / page load) issues exactly one generation request
\* for that position, and every other generation request is a user's retry
\* of a failed one: a step sends at most one such request, only with no
\* question held, for the current position, and with the retry flag armed
\* only if the step is the user's retry (or a new page load).
C5_OneGenerationPerPosition ==
    /\ Cardinality(Generations) <= 1
    /\ Generations # {} =>
           /\ last.op \in {"handleAnswer", "resumeQuiz", "pageLoad",
                           "retryFetchQuestion"}
           /\ quizPhase = "phase2"
           /\ currentPhase2Question = Null
           /\ GenerationPending
           /\ last.armed => last.op \in {"retryFetchQuestion", "pageLoad"}
           /\ last.op = "retryFetchQuestion" => last.armed
           /\ last.op = "handleAnswer" => currentQuestionIndex = last.index + 1
    /\ (last.op = "handleAnswer" /\ last.ok /\ quizPhase = "phase2") =>
           Generations # {}
    /\ (last.op = "pageLoad" /\ quizPhase = "phase2") => Generations # {}
    /\ (last.op = "resumeQuiz" /\ quizPhase = "phase2"
            /\ currentPhase2Question = Null /\ ~retryPossible) =>
           GenerationPending

C5_Witness ==
    /\ last.op = "resumeQuiz"
    /\ quizPhase = "phase2"
    /\ last.issued = <<>>
    /\ GenerationPending

\* C6: the phase goes from evaluating to results only in the step where a
\* review call succeeds while an evaluation result is held, and a review
\* request is sent only while an evaluation result is held.
C6_ResultsAfterEvaluationThenReview ==
    /\ (last.phase = "evaluating" /\ quizPhase = "results") =>
           /\ last.op = "reviewResponds" /\ last.ok
           /\ evaluatedTop5 # Null
           /\ reviewText # Null
    /\ (\E i \in DOMAIN last.issued : last.issued[i] = "review") =>
           evaluatedTop5 # Null

C6_Witness ==
    /\ last.phase = "evaluating"
    /\ quizPhase = "results"
    /\ last.op = "reviewResponds"

\* C7: a failed evaluation or review call in phase evaluating leaves the
\* phase evaluating with the retry flag armed, and the user's retry sends
\* the review request alone if an evaluation result is held and the
\* evaluation request alone otherwise.
C7_EvaluationFailureAndRetry ==
    /\ (last.op \in {"evaluationResponds", "reviewResponds"} /\ ~last.ok
            /\ last.phase = "evaluating") =>
           quizPhase = "evaluating" /\ retryPossible
    /\ last.op \in {"retryEvaluation", "retryReview"} =>
           /\ last.phase = "evaluating" /\ last.armed
           /\ last.issued = IF evaluatedTop5 # Null THEN <<"review">>
                            ELSE <<"evaluate">>

C7_Witness ==
    /\ last.op = "retryReview"
    /\ last.issued = <<"review">>
    /\ evaluatedTop5 # Null

\* The classes of failure the catch block of a generation request shows.
RetryableFailure(message) ==
    message.text \in {"rate_limit", "AI service response handling error",
                      "AI service error", "transport"}

\* C8: a rate-limit, validation or transport/unknown failure of a
\* generation request leaves the phase and the position as they were and
\* arms the retry flag.
C8_GenerationFailureKeepsPlace ==
    (last.op = "generationResponds" /\ ~last.ok
         /\ errorMessage # Null /\ RetryableFailure(Val(errorMessage))) =>
        /\ quizPhase = last.phase
        /\ currentQuestionIndex = last.index
        /\ retryPossible

C8_Witness ==
    /\ last.op = "generationResponds" /\ ~last.ok
    /\ errorMessage # Null
    /\ Val(errorMessage).text = "AI service response handling error"
    /\ quizPhase = "phase2"
    /\ retryPossible

\* C9: a step that begins with the retry flag armed sends a request only if
\* it is a user's retry, a reset or a page load.
C9_NoAutomaticRetry ==
    (last.armed /\ last.issued # <<>>) =>
        last.op \in {"retryFetchQuestion", "retryEvaluation", "retryReview",
                     "resetQuiz", "startNewQuiz", "startQuiz", "pageLoad"}

C9_Witness ==
    /\ last.op = "resumeQuiz"
    /\ last.armed
    /\ quizPhase = "phase2"
    /\ last.issued = <<>>
    /\ retryPossible

RetrySucceededAfterRateLimit ==
    /\ last.op = "generationResponds" /\ last.ok
    /\ last.origin # Null
    /\ Val(last.origin).by = "retryFetchQuestion"
    /\ Val(last.origin).afterRateLimit

\* C10: when the user's retry of a rate-limited generation request at
\* position p succeeds, the position is still p and one question is held
\* and presented for it, with no other request pending.
C10_RetryAfterRateLimit ==
    RetrySucceededAfterRateLimit =>
        /\ currentQuestionIndex = Val(last.origin).index
        /\ currentPhase2Question # Null
        /\ currentQuestion = currentPhase2Question
        /\ QuestionCardShown
        /\ inflight = <<>>

C10_Witness ==
    /\ RetrySucceededAfterRateLimit
    /\ QuestionCardShown
    /\ currentQuestion = currentPhase2Question


\* The step changed the tally, the history or the position.
ProgressChanged ==
    \/ valueScores # last.scores
    \/ quizHistory # last.history
    \/ currentQuestionIndex # last.index

CompletionStep ==
    last.op \in {"generationResponds", "evaluationResponds", "reviewResponds"}

\* C11: no completion of a remote call changes the tally, the
\* history or the position, and a step changes them only if it is an
\* accepted answer or the user's restart, start-over or start.
C11_OnlyAnswersAndResetsChangeProgress ==
    /\ CompletionStep => ~ProgressChanged
    /\ ProgressChanged =>
           \/ last.op = "handleAnswer" /\ last.ok
           \/ last.op \in {"resetQuiz", "startNewQuiz", "startQuiz"}

\* C11, but for onMount: no completion of a remote call changes the tally,
\* the history or the position; a step changes them only if it is an
\* accepted answer, the user's restart, start-over or start, or onMount's
\* reset of a persisted position beyond the last question.
C11_CompletionsKeepProgress ==
    /\ CompletionStep => ~ProgressChanged
    /\ ProgressChanged =>
           \/ last.op = "handleAnswer" /\ last.ok
           \/ last.op \in {"resetQuiz", "startNewQuiz", "startQuiz"}
           \/ /\ last.op = "onMount"
              /\ last.index > TOTAL_QUESTIONS
              /\ last.phase \notin {"results", "evaluating"}
              /\ currentQuestionIndex = 0

C11_Witness ==
    /\ last.op = "generationResponds" /\ last.ok
    /\ last.history # <<>>
    /\ currentPhase2Question # Null
    /\ ~ProgressChanged


\* The completion that just ran reported that the service is not configured.
ConfigurationFailure ==
    /\ CompletionStep /\ ~last.ok
    /\ errorMessage # Null
    /\ Val(errorMessage).text = "AI service is not configured on the server."

\* C12: after a remote call has failed because the service is not
\* configured, the phase is error and the retry flag is not armed.
C12_ConfigurationFailureIsFatal ==
    ConfigurationFailure => quizPhase = "error" /\ ~retryPossible

C12_Witness ==
    /\ ConfigurationFailure
    /\ last.op = "generationResponds"
    /\ last.phase = "phase2"


\* C13: the phase becomes error only in the step where the fixed question
\* set fails to load; no failed generation, evaluation or review call
\* moves the phase to error.
C13_ErrorOnlyFromLoadFailure ==
    /\ (quizPhase = "error" /\ last.phase # "error") =>
           last.op = "onMount" /\ ~last.ok
    /\ (CompletionStep /\ ~last.ok /\ last.phase # "error") =>
           quizPhase # "error"

C13_Witness ==
    /\ quizPhase = "error"
    /\ last.phase = "phase2"
    /\ last.op = "onMount"


\* C14: the position decreases in a step only if the step is the user's
\* restart, start-over or start.
C14_PositionDecreasesOnlyByReset ==
    currentQuestionIndex < last.index =>
        last.op \in {"resetQuiz", "startNewQuiz", "startQuiz"}

\* C14, but for onMount: the position decreases only in those steps and in
\* onMount's reset of a persisted position beyond the last question.
C14_PositionDecreasesOnlyByResetOrMount ==
    currentQuestionIndex < last.index =>
        \/ last.op \in {"resetQuiz", "startNewQuiz", "startQuiz"}
        \/ last.op = "onMount" /\ last.index > TOTAL_QUESTIONS

C14_Witness ==
    /\ last.op = "startNewQuiz"
    /\ last.index > TOTAL_PHASE_1_QUESTIONS
    /\ currentQuestionIndex = 0


PhaseRank(phase) ==
    CASE phase = "phase1" -> 1
      [] phase = "phase2" -> 2
      [] phase = "evaluating" -> 3
      [] phase = "results" -> 4
      [] OTHER -> 0

\* C15: since the user's last restart, start-over or start, a quiz phase is
\* never followed by an earlier one (phase1 < phase2 < evaluating <
\* results), and results is reached only after evaluating.
C15_PhasesOnlyMoveForward ==
    /\ quizPhase \in QuizPath =>
           \A phase \in visited : PhaseRank(phase) <= PhaseRank(quizPhase)
    /\ quizPhase = "results" => "evaluating" \in visited
    /\ (quizPhase \in QuizPath /\ last.phase \in QuizPath
            /\ last.op \notin UserResets) =>
           PhaseRank(last.phase) <= PhaseRank(quizPhase)

C15_Witness ==
    /\ quizPhase = "phase2"
    /\ last.op = "resumeQuiz"
    /\ last.phase = "error"
    /\ visited = {"phase1", "phase2"}


\* C16: the start action leaves the phase phase1, the position 1, every
\* catalog value at score 0 and the history empty.
C16_StartResets ==
    last.op = "startQuiz" =>
        /\ quizPhase = "phase1"
        /\ currentQuestionIndex = 1
        /\ DOMAIN valueScores = Range(PROFESSIONAL_VALUES)
        /\ \A v \in Range(PROFESSIONAL_VALUES) : valueScores[v] = 0
        /\ quizHistory = <<>>

C16_Witness ==
    /\ last.op = "startQuiz"
    /\ last.phase = "start"
    /\ quizPhase = "phase1"
    /\ currentQuestion = Some(Phase1Question(1))


\* C17: in every reachable state the keys of the tally are exactly the
\* catalog's values, whatever values the answered questions name.
C17_TallyKeysAreTheCatalog ==
    DOMAIN valueScores = Range(PROFESSIONAL_VALUES)

C17_Witness ==
    /\ last.op = "handleAnswer" /\ last.ok
    /\ last.sel # Null
    /\ ~Val(last.sel).isArray
    /\ "value_area_hint" \in DOMAIN Val(Val(last.sel).option)
    /\ Includes(Val(Val(last.sel).option).value_area_hint, Unlisted)



\* The step that led here was an accepted answer to a question of this type.
AnswerAcceptedTo(type) ==
    /\ last.op = "handleAnswer" /\ last.ok
    /\ last.question # Null
    /\ Val(last.question).type = type

\* The compared values of the answered question whose name the text contains.
NamedIn(text) ==
    {v \in Range(Val(last.question).values_being_compared) : Includes(text, v)}

\* What the step added to the score of a value.
ScoreChange(v) == valueScores[v] - last.scores[v]

\* C18: after every accepted forced-choice answer one compared value,
\* the chosen option's, has gained exactly 2, another compared value has
\* lost exactly 1, and the history is longer by exactly 1.
C18_ForcedChoiceScores ==
    AnswerAcceptedTo("forced_choice") =>
        /\ \E chosen, other \in Range(Val(last.question).values_being_compared) :
               /\ chosen # other
               /\ NamedIn(Val(Val(last.sel).option).text) \subseteq {chosen}
               /\ ScoreChange(chosen) = 2
               /\ ScoreChange(other) = -1
        /\ Len(quizHistory) = Len(last.history) + 1

\* C18, where it holds: when the chosen option's text names exactly one of
\* the two compared values, that value has gained exactly 2, the other has
\* lost exactly 1, and the history is longer by exactly 1.
C18_NamedChoiceScores ==
    AnswerAcceptedTo("forced_choice") =>
        LET compared == Val(last.question).values_being_compared IN
        \A chosen, other \in Range(compared) :
            (/\ Len(compared) = 2
             /\ chosen # other
             /\ NamedIn(Val(Val(last.sel).option).text) = {chosen})
            => /\ ScoreChange(chosen) = 2
               /\ ScoreChange(other) = -1
               /\ Len(quizHistory) = Len(last.history) + 1

\* A forced choice was answered with an option that names no compared value.
C18_Witness ==
    /\ AnswerAcceptedTo("forced_choice")
    /\ NamedIn(Val(Val(last.sel).option).text) = {}
    /\ Len(quizHistory) = Len(last.history) + 1



\* The points of a rank.
RankPoints(r) == CASE r = 1 -> 3 [] r = 2 -> 2 [] r = 3 -> 1 [] OTHER -> 0

\* The option's text resolves to v: v is the first of the compared values
\* whose name the text contains.
ResolvesTo(text, v) ==
    LET compared == Val(last.question).values_being_compared IN
    \E i \in DOMAIN compared :
        /\ compared[i] = v
        /\ Includes(text, v)
        /\ \A j \in 1..(i - 1) : ~Includes(text, compared[j])

\* The points of the options at ranks 1..r of the submitted ranking that
\* resolve to v.
RECURSIVE PointsRankedTo(_, _)
PointsRankedTo(v, r) ==
    IF r = 0 THEN 0
    ELSE PointsRankedTo(v, r - 1)
         + (IF ResolvesTo(Val(last.sel).ranked[r].text, v)
            THEN RankPoints(r) ELSE 0)

\* C19: after every accepted ranking answer each value has gained exactly
\* the points of the ranks (rank 1: 3, rank 2: 2, rank 3: 1, rank 4: 0) of
\* the submitted options that resolve to it.
C19_RankingScores ==
    AnswerAcceptedTo("ranking") =>
        \A v \in DOMAIN valueScores :
            ScoreChange(v) = PointsRankedTo(v, Len(Val(last.sel).ranked))

\* Growth, Balance, Impact were ranked Balance, Growth, Impact:
\* Balance +3, Growth +2, Impact +1.
C19_Witness ==
    /\ AnswerAcceptedTo("ranking")
    /\ Val(last.question).values_being_compared = <<"Growth", "Balance", "Impact">>
    /\ [r \in DOMAIN Val(last.sel).ranked |-> Val(last.sel).ranked[r].text]
           = << <<"Balance">>, <<"Growth">>, <<"Impact">> >>
    /\ ScoreChange("Balance") = 3
    /\ ScoreChange("Growth") = 2
    /\ ScoreChange("Impact") = 1



\* The sum of f over the set S of values.
RECURSIVE SumOver(_, _)
SumOver(f, S) ==
    IF S = {} THEN 0
    ELSE LET v == CHOOSE x \in S : TRUE IN f[v] + SumOver(f, S \ {v})

\* The sum of the points of the ranks 1..k.
RECURSIVE PointsOfRanks(_)
PointsOfRanks(k) == IF k = 0 THEN 0 ELSE RankPoints(k) + PointsOfRanks(k - 1)

\* What the step added to all scores together.
TotalScoreChange ==
    SumOver([v \in DOMAIN valueScores |-> ScoreChange(v)], DOMAIN valueScores)

\* C20: after every accepted ranking answer over k options the scores have
\* gained, all values together, the sum of max(0, 4 - r) for r in 1..k
\* (6 for k = 3 and for k = 4).
C20_RankingTotal ==
    AnswerAcceptedTo("ranking") =>
        TotalScoreChange = PointsOfRanks(Len(Val(last.sel).ranked))

\* C20, where it holds: when every submitted option resolves to a compared
\* value, the total gained is the sum of the points of the ranks 1..k.
C20_ResolvedRankingTotal ==
    (/\ AnswerAcceptedTo("ranking")
     /\ \A r \in DOMAIN Val(last.sel).ranked :
            \E v \in DOMAIN valueScores :
                ResolvesTo(Val(last.sel).ranked[r].text, v))
    => TotalScoreChange = PointsOfRanks(Len(Val(last.sel).ranked))

\* A ranking was answered in which an option with points resolves to no
\* compared value.
C20_Witness ==
    /\ AnswerAcceptedTo("ranking")
    /\ \E r \in DOMAIN Val(last.sel).ranked :
           /\ RankPoints(r) > 0
           /\ \A v \in DOMAIN valueScores :
                  ~ResolvesTo(Val(last.sel).ranked[r].text, v)



\* The hint values of the option chosen in the last step.
ChosenHints == Range(Val(Val(last.sel).option).value_area_hint)

\* C21: after every accepted simple-choice answer every value of the
\* chosen option's hint set that the tally holds has gained exactly 1, and
\* no score has decreased.
C21_SimpleChoiceScores ==
    AnswerAcceptedTo("simple_choice") =>
        /\ \A v \in ChosenHints \cap DOMAIN last.scores : ScoreChange(v) = 1
        /\ \A v \in DOMAIN last.scores : ScoreChange(v) >= 0

\* A simple choice was answered whose chosen option hints at a value of the
\* tally that already had points.
C21_Witness ==
    /\ AnswerAcceptedTo("simple_choice")
    /\ \E v \in ChosenHints \cap DOMAIN last.scores :
           last.scores[v] > 0 /\ ScoreChange(v) = 1



\* C22: after every accepted answer the history is the history before it
\* with exactly one record more at its end, the record of the answered
\* question, whether or not the answer changed a score.
C22_OneRecordAppended ==
    (last.op = "handleAnswer" /\ last.ok) =>
        /\ Len(quizHistory) = Len(last.history) + 1
        /\ SubSeq(quizHistory, 1, Len(last.history)) = last.history
        /\ quizHistory[Len(quizHistory)].questionId = Val(last.question).id
        /\ quizHistory[Len(quizHistory)].questionType = Val(last.question).type

\* A forced choice was answered with an option whose text names no compared
\* value, after earlier answers; no score rose, and the record is there.
C22_Witness ==
    /\ AnswerAcceptedTo("forced_choice")
    /\ NamedIn(Val(Val(last.sel).option).text) = {}
    /\ \A v \in DOMAIN valueScores : ScoreChange(v) <= 0
    /\ Len(last.history) > 0
    /\ quizHistory = Append(last.history, quizHistory[Len(quizHistory)])



\* C23: an answer is scored once.  An answer that handleAnswer does not
\* accept (a call is loading, retry is armed, or no question is held) leaves
\* tally, history, position and phase as they were and sends nothing; an
\* accepted answer moves the position on by one, so that the question
\* answered is no longer the one awaited or presented at the position; and
\* the history holds one record per position passed.
C23_AnswerScoredOnce ==
    /\ (last.op = "handleAnswer" /\ ~last.ok) =>
           /\ valueScores = last.scores
           /\ quizHistory = last.history
           /\ currentQuestionIndex = last.index
           /\ quizPhase = last.phase
           /\ last.issued = <<>>
    /\ (last.op = "handleAnswer" /\ last.ok) =>
           /\ currentQuestionIndex = last.index + 1
           /\ Len(quizHistory) = Len(last.history) + 1
           /\ \A i \in DOMAIN inflight :
                  inflight[i].origin.index = currentQuestionIndex
           /\ QuestionCardShown =>
                  /\ quizPhase = "phase1"
                  /\ currentQuestion = Some(Phase1Question(currentQuestionIndex))
    /\ currentQuestionIndex > 0 => Len(quizHistory) = currentQuestionIndex - 1

\* handleAnswer was called while a generation was loading and a question
\* already answered was still held: nothing changed.
C23_Witness ==
    /\ last.op = "handleAnswer" /\ ~last.ok
    /\ last.question # Null
    /\ isLoading
    /\ Len(quizHistory) > 0
    /\ quizHistory[Len(quizHistory)].questionId = Val(last.question).id



\* C24: in every reachable state a page load from the durable store gives
\* the stores the tally, history, phase and position that are in memory; and
\* after a reload they are what they were before it.
C24_ResumeRoundTrip ==
    /\ LET s == PageLoad(localStorage) IN
           /\ s.valueScores = valueScores
           /\ s.quizHistory = quizHistory
           /\ s.quizPhase = quizPhase
           /\ s.currentQuestionIndex = currentQuestionIndex
    /\ last.op = "pageLoad" =>
           /\ valueScores = last.scores
           /\ quizHistory = last.history
           /\ quizPhase = last.phase
           /\ currentQuestionIndex = last.index

\* The page was reloaded in phase 2, with answers recorded and points given.
C24_Witness ==
    /\ last.op = "pageLoad"
    /\ last.phase = "phase2"
    /\ Len(last.history) > 0
    /\ last.scores # initializeScores
    /\ quizHistory = last.history /\ valueScores = last.scores



\* The step that led here was a startup step (the page's load or the end of
\* onMount's loading) of a quiz under way: position > 0, phase not results.
StartupOfQuizUnderWay ==
    /\ last.op \in {"pageLoad", "onMount"}
    /\ last.index > 0
    /\ last.phase # "results"

\* C25: the load of the page with a quiz under way in the durable store
\* sends no request, and once the questions are loaded for a quiz whose
\* tally is in the durable store, the resume-or-restart choice is offered
\* and no request has been sent.
C25_ChoiceBeforePhaseLogic ==
    /\ (StartupOfQuizUnderWay /\ last.op = "pageLoad") => last.issued = <<>>
    /\ (/\ StartupOfQuizUnderWay /\ last.op = "onMount" /\ last.ok
        /\ localStorage.valueScores # Null)
       => showResumePrompt /\ last.issued = <<>>

\* The page was reloaded in phase 2 with no question held.
C25_Witness ==
    /\ last.op = "pageLoad"
    /\ last.phase = "phase2" /\ quizPhase = "phase2"
    /\ last.index > TOTAL_PHASE_1_QUESTIONS
    /\ mount = "loading"
    /\ ~showResumePrompt



\* C26: after the user declined to resume (Start Over) the durable store
\* holds no phase, no tally, no position and no history, and the page is in
\* phase start at position 0 with a zero tally and an empty history.
C26_StartOverClearsSnapshot ==
    last.op = "startNewQuiz" =>
        /\ localStorage = EmptyStorage
        /\ quizPhase = "start"
        /\ currentQuestionIndex = 0
        /\ valueScores = initializeScores
        /\ quizHistory = <<>>

\* Start Over was chosen for a quiz with answers recorded and points given.
C26_Witness ==
    /\ last.op = "startNewQuiz"
    /\ Len(last.history) > 0
    /\ last.scores # initializeScores
    /\ last.index > 0
    /\ localStorage.quizHistory = Null



\* C27: the evaluation result and the review text are not in the durable
\* store: a page load from it holds neither, and after every reload both
\* are absent.
C27_ResultsNotPersisted ==
    /\ DOMAIN localStorage =
           {"quizPhase", "valueScores", "currentQuestionIndex", "quizHistory"}
    /\ LET s == PageLoad(localStorage) IN
           s.evaluatedTop5 = Null /\ s.reviewText = Null
    /\ last.op = "pageLoad" => evaluatedTop5 = Null /\ reviewText = Null

\* The page was reloaded in phase results; the results are gone.
C27_Witness ==
    /\ last.op = "pageLoad"
    /\ last.phase = "results" /\ quizPhase = "results"
    /\ evaluatedTop5 = Null /\ reviewText = Null



\* The question is well formed: its type is forced_choice or ranking, it has
\* 2 options if a forced choice and 3 or 4 if a ranking, and the values it
\* compares are catalog values, none of them twice.
WellFormedQuestion(q) ==
    /\ q.type \in {"forced_choice", "ranking"}
    /\ q.type = "forced_choice" => Len(q.options) = 2
    /\ q.type = "ranking" => Len(q.options) \in {3, 4}
    /\ \A i \in DOMAIN q.values_being_compared :
           /\ q.values_being_compared[i] \in Range(PROFESSIONAL_VALUES)
           /\ \A j \in DOMAIN q.values_being_compared :
                  q.values_being_compared[i] = q.values_being_compared[j] => i = j

\* C28: a generated question that the page holds, and so presents, is well
\* formed; a generation that answered anything else has failed.
C28_OnlyWellFormedQuestionsHeld ==
    /\ currentPhase2Question # Null => WellFormedQuestion(Val(currentPhase2Question))
    /\ (last.op = "generationResponds" /\ last.ok) =>
           (currentPhase2Question # Null
            /\ WellFormedQuestion(Val(currentPhase2Question)))

\* A generation succeeded and its question is held and shown.
C28_Witness ==
    /\ last.op = "generationResponds" /\ last.ok
    /\ currentPhase2Question # Null
    /\ currentQuestion = currentPhase2Question
    /\ QuestionCardShown
    /\ ~WellFormedQuestion(Val(currentPhase2Question))



\* Exactly 5 values, all of the catalog, no value twice.
FiveDistinctCatalogValues(top5) ==
    /\ Len(top5) = 5
    /\ \A i \in DOMAIN top5 :
           /\ top5[i] \in Range(PROFESSIONAL_VALUES)
           /\ \A j \in DOMAIN top5 : top5[i] = top5[j] => i = j

\* C29: an evaluation result that the page holds consists of exactly 5
\* distinct catalog values; an evaluation that answered anything else has
\* failed.
C29_OnlyFiveDistinctValuesHeld ==
    /\ evaluatedTop5 # Null => FiveDistinctCatalogValues(Val(evaluatedTop5))
    /\ (last.op = "evaluationResponds" /\ last.ok) =>
           (evaluatedTop5 # Null
            /\ FiveDistinctCatalogValues(Val(evaluatedTop5)))

\* C29, where it holds: a held evaluation result consists of exactly 5
\* catalog values.
C29_OnlyFiveCatalogValuesHeld ==
    evaluatedTop5 # Null =>
        /\ Len(Val(evaluatedTop5)) = 5
        /\ Range(Val(evaluatedTop5)) \subseteq Range(PROFESSIONAL_VALUES)

\* An evaluation succeeded, and the result held names a value twice.
C29_Witness ==
    /\ last.op = "evaluationResponds" /\ last.ok
    /\ evaluatedTop5 # Null
    /\ Len(Val(evaluatedTop5)) = 5
    /\ Cardinality(Range(Val(evaluatedTop5))) < 5



\* The list the results page shows, when it shows one.
ShownTopValues == Val(sortedTopValues(evaluatedTop5, valueScores))

ResultsShown == quizPhase = "results" /\ evaluatedTop5 # Null

\* The catalog position of a value.
CatalogIndex(v) ==
    CHOOSE i \in DOMAIN PROFESSIONAL_VALUES : PROFESSIONAL_VALUES[i] = v

\* v ranks before w by the tally: higher score, or equal score and earlier
\* in the catalog.
RanksBefore(v, w) ==
    \/ valueScores[v] > valueScores[w]
    \/ valueScores[v] = valueScores[w] /\ CatalogIndex(v) < CatalogIndex(w)

\* C30: the list shown (for an evaluation result of five distinct catalog
\* values) is the five highest-scored values of the tally in non-increasing
\* score order, ties in catalog order.
C30_TopFiveOfTally ==
    (ResultsShown /\ FiveDistinctCatalogValues(Val(evaluatedTop5))) =>
        /\ Len(ShownTopValues) = 5
        /\ \A i, j \in DOMAIN ShownTopValues :
               i < j => RanksBefore(ShownTopValues[i], ShownTopValues[j])
        /\ \A v \in Range(PROFESSIONAL_VALUES) \ Range(ShownTopValues) :
               \A i \in DOMAIN ShownTopValues : RanksBefore(ShownTopValues[i], v)

\* C30, amended: the list shown is the held evaluation result rearranged in
\* non-increasing score order, values of equal score in the order the
\* evaluation gave them; so the same tally and evaluation result give the
\* same list.
C30_EvaluationSortedByScore ==
    ResultsShown =>
        LET result == Val(evaluatedTop5)
            Times(list, v) == Cardinality({i \in DOMAIN list : list[i] = v})
            Precedes(list, v, w) ==
                \E i, j \in DOMAIN list : i < j /\ list[i] = v /\ list[j] = w
        IN  /\ \A v \in Range(PROFESSIONAL_VALUES) :
                   Times(ShownTopValues, v) = Times(result, v)
            /\ \A i, j \in DOMAIN ShownTopValues :
                   i < j => valueScores[ShownTopValues[i]]
                                >= valueScores[ShownTopValues[j]]
            /\ \A v, w \in Range(result) :
                   (v # w /\ valueScores[v] = valueScores[w])
                   => (Precedes(ShownTopValues, v, w) <=> Precedes(result, v, w))

\* Results are shown for an evaluation result that is not in score order and
\* has values of equal score.
C30_Witness ==
    /\ ResultsShown
    /\ ShownTopValues # Val(evaluatedTop5)
    /\ \E i, j \in DOMAIN ShownTopValues :
           /\ i < j
           /\ ShownTopValues[i] # ShownTopValues[j]
           /\ valueScores[ShownTopValues[i]] = valueScores[ShownTopValues[j]]


(***************************************************************************)
(* C31..C40                                                                *)
(***************************************************************************)
\* The tasks that begin a session or belong to its startup: the page load,
\* onMount, and the two buttons of the resume prompt that onMount shows.
StartupOps == {"pageLoad", "onMount", "resumeQuiz", "startNewQuiz"}

\* C31: a task that begins in phase error and is neither the restart
\* (resetQuiz) nor part of a session's startup leaves the phase error, sends
\* no request and presents no question.
C31_ErrorPhaseIsTerminal ==
    (last.phase = "error" /\ last.op \notin {"resetQuiz"} \cup StartupOps) =>
        /\ quizPhase = "error"
        /\ last.issued = <<>>
        /\ ~QuestionCardShown

\* A response arrives while the phase is error.
C31_Witness ==
    /\ last.phase = "error"
    /\ last.op \in {"generationResponds", "evaluationResponds", "reviewResponds"}


\* C32: a click on a rank button submits an answer only when it completes the
\* ranking; the list submitted then has the question's k options, each of
\* them once, and is handled as the answer.  A click that leaves a rank
\* unassigned submits nothing: the quiz is where it was, the card holds the
\* incomplete ranking.
C32_RankingSubmittedWhenComplete ==
    last.op = "handleRankSelect" =>
        LET q == Val(last.question)
            k == Len(q.options)
        IN  IF last.sel # Null
            THEN LET ranked == Val(last.sel).ranked IN
                 /\ Val(last.sel).isArray
                 /\ Len(ranked) = k
                 /\ \A o \in 1..k :
                        Cardinality({i \in 1..Len(ranked) :
                                         ranked[i] = q.options[o]}) = 1
                 /\ Val(last.sel) \in Selections(q)
                 /\ last.ok
                 /\ Len(quizHistory) = Len(last.history) + 1
                 /\ quizHistory[Len(quizHistory)].answer
                        = [i \in 1..k |-> ranked[i].text]
                 /\ currentQuestionIndex = last.index + 1
            ELSE /\ DOMAIN selectedRanking # {}
                 /\ DOMAIN selectedRanking \subseteq 1..k
                 /\ DOMAIN selectedRanking # 1..k
                 /\ quizHistory = last.history
                 /\ valueScores = last.scores
                 /\ currentQuestionIndex = last.index
                 /\ currentQuestion = last.question
                 /\ last.issued = <<>>

\* A ranking of four options is submitted in an order other than the one in
\* which the card lists them.
C32_Witness ==
    /\ last.op = "handleRankSelect"
    /\ last.sel # Null
    /\ Len(Val(last.question).options) = 4
    /\ Val(last.sel).ranked # Val(last.question).options


\* C33: after an accepted forced-choice answer whose chosen text names none
\* of the compared values, no value has gained anything (none has +2), no
\* error is shown and the phase is not error, the answer is the history's
\* new last record, and the position has advanced by one.
C33_UnresolvedChoiceStillRecorded ==
    (/\ AnswerAcceptedTo("forced_choice")
     /\ NamedIn(Val(Val(last.sel).option).text) = {}) =>
        /\ \A v \in DOMAIN valueScores : ScoreChange(v) <= 0
        /\ errorMessage = Null
        /\ quizPhase \in {"phase2", "evaluating"}
        /\ Len(quizHistory) = Len(last.history) + 1
        /\ SubSeq(quizHistory, 1, Len(last.history)) = last.history
        /\ quizHistory[Len(quizHistory)].questionId = Val(last.question).id
        /\ quizHistory[Len(quizHistory)].answer
               = <<Val(Val(last.sel).option).text>>
        /\ currentQuestionIndex = last.index + 1

\* The forced choice between Growth and Impact was answered "learning".
C33_Witness ==
    /\ AnswerAcceptedTo("forced_choice")
    /\ Val(last.question) = DescriptiveChoiceContent
    /\ Val(Val(last.sel).option).text = <<"learning">>
    /\ currentQuestionIndex = last.index + 1


\* The values the answered question names for the submitted answer: the
\* chosen option's hint values (simple choice), the compared values
\* (forced choice, ranking).
ValuesNamedByAnswer ==
    IF Val(last.question).type = "simple_choice"
    THEN Range(Val(Val(last.sel).option).value_area_hint)
    ELSE Range(Val(last.question).values_being_compared)

\* C34: after every accepted answer the tally has the keys it had, and
\* every value that the answered question does not name has the score it
\* had.
C34_OnlyNamedValuesChange ==
    (last.op = "handleAnswer" /\ last.ok) =>
        /\ DOMAIN valueScores = DOMAIN last.scores
        /\ \A v \in DOMAIN valueScores \ ValuesNamedByAnswer :
               ScoreChange(v) = 0

\* An accepted answer changed the score of a value it names, while a value
\* it does not name had a score other than 0 and keeps it.
C34_Witness ==
    /\ last.op = "handleAnswer" /\ last.ok
    /\ \E v \in ValuesNamedByAnswer \cap DOMAIN valueScores : ScoreChange(v) # 0
    /\ \E w \in DOMAIN valueScores \ ValuesNamedByAnswer :
           last.scores[w] # 0 /\ valueScores[w] = last.scores[w]


\* The question and the answer a history record was made from.
RecordedQuestion(rec) ==
    [type |-> rec.questionType, values_being_compared |-> rec.valuesInvolved]

RecordedAnswer(rec) ==
    IF rec.answerIsArray
    THEN Ranked([i \in DOMAIN rec.answer |-> [text |-> rec.answer[i]]])
    ELSE OneOption([text |-> rec.answer[1],
                    value_area_hint |-> rec.valuesInvolved])

\* The tally that the first n recorded answers produce from the initial one.
RECURSIVE TallyOf(_, _)
TallyOf(history, n) ==
    IF n = 0 THEN initializeScores
    ELSE handleAnswer_score(TallyOf(history, n - 1),
                            RecordedQuestion(history[n]),
                            RecordedAnswer(history[n]))

\* The request was sent at the present position with the present tally, which
\* is the tally of the position - 1 recorded answers and the stored one.
SentForThisPosition(req) ==
    /\ req.origin.index = currentQuestionIndex
    /\ Len(quizHistory) = currentQuestionIndex - 1
    /\ req.scores = valueScores
    /\ req.scores = TallyOf(quizHistory, Len(quizHistory))
    /\ localStorage.valueScores = Some(JSONstringify(req.scores))
    /\ localStorage.quizHistory = Some(JSONstringify(quizHistory))

\* C35: (1) a task that sends a generation request sends it in phase 2 at the
\* position it leaves, carrying the tally of the position - 1 recorded
\* answers, which is the stored tally; (2) after an accepted answer the only
\* pending requests are the ones that answer's task sent, so a request pending
\* at position p was sent after the (p-1)-th answer; (3) a generation request
\* pending in phase 2 was sent for the present position and tally; (4) a
\* phase-2 question is held in phase 2 only from the response's task on, with
\* position and tally unchanged since: the question answered at position p
\* is the response to a request sent for p.
C35_RequestCarriesRecordedTally ==
    /\ "generate" \in Range(last.issued) =>
           /\ quizPhase = "phase2"
           /\ inflight # <<>>
           /\ inflight[Len(inflight)].kind = "generate"
           /\ SentForThisPosition(inflight[Len(inflight)])
    /\ (last.op = "handleAnswer" /\ last.ok) =>
           Len(inflight) = Len(last.issued)
    /\ \A i \in DOMAIN inflight :
           (inflight[i].kind = "generate" /\ quizPhase = "phase2") =>
               SentForThisPosition(inflight[i])
    /\ (quizPhase = "phase2" /\ currentPhase2Question # Null) =>
           /\ last.phase = "phase2"
           /\ last.index = currentQuestionIndex
           /\ last.scores = valueScores
           /\ last.history = quizHistory
           /\ last.op = "generationResponds" =>
                  last.ok /\ Val(last.origin).index = currentQuestionIndex

\* The answer to a phase-2 question sent the request for the next one, with
\* the tally that answer produced.
C35_Witness ==
    /\ last.op = "handleAnswer" /\ last.ok /\ last.phase = "phase2"
    /\ "generate" \in Range(last.issued)
    /\ valueScores # last.scores


\* C36: in every state the history is empty at position 0 and has
\* position - 1 records at a position of 1 or more, and every pending
\* evaluation or review request carries TOTAL_QUESTIONS records.
C36_HistoryLengthIsPosition ==
    /\ currentQuestionIndex = 0 => quizHistory = <<>>
    /\ currentQuestionIndex >= 1 => Len(quizHistory) = currentQuestionIndex - 1
    /\ \A i \in DOMAIN inflight :
           inflight[i].kind \in {"evaluate", "review"} =>
               /\ Len(inflight[i].history) = TOTAL_QUESTIONS
               /\ inflight[i].history = quizHistory

\* A review request is pending at the position after the last question, in a
\* quiz that went through phase1, phase2 and evaluating.
C36_Witness ==
    /\ \E i \in DOMAIN inflight :
           inflight[i].kind = "review"
               /\ Len(inflight[i].history) = TOTAL_QUESTIONS
    /\ currentQuestionIndex = TOTAL_QUESTIONS + 1
    /\ visited = QuizPath \ {"results"}


\* C37: whenever the phase is results, an evaluation result of five values
\* and a review text are held.
C37_ResultsAreHeldInPhaseResults ==
    quizPhase = "results" =>
        /\ evaluatedTop5 # Null
        /\ Len(Val(evaluatedTop5)) = 5
        /\ reviewText # Null

\* C37, where it holds: a task that enters phase results from another phase
\* leaves a result of five values and a review text held.
C37_ResultsAreHeldWhenEntered ==
    (quizPhase = "results" /\ last.phase # "results") =>
        /\ evaluatedTop5 # Null
        /\ Len(Val(evaluatedTop5)) = 5
        /\ reviewText # Null

\* The page was reloaded in phase results and onMount has completed: the
\* results view is on display.
C37_Witness ==
    /\ quizPhase = "results"
    /\ last.op = "onMount" /\ last.phase = "results"
    /\ mount = "loaded"
    /\ ~showResumePrompt


\* C38: in no state is the retry flag armed while the phase is start, phase1
\* or results.
C38_RetryArmedOnlyInPhase2OrEvaluating ==
    retryPossible => quizPhase \notin {"start", "phase1", "results"}

\* The response to a generation request sent by the page load arrives after
\* the user has started over: the phase is start or phase1.
C38_Witness ==
    /\ last.op = "generationResponds"
    /\ Val(last.origin).by = "pageLoad"
    /\ last.phase \in {"start", "phase1"}
    /\ quizPhase = last.phase


\* The retry actions the views offer.
RetryOps == {"retryFetchQuestion", "retryEvaluation", "retryReview"}

\* C39: every retry action the user invokes is invoked with the retry flag
\* armed, sends one request and leaves the flag disarmed.
C39_RetrySendsRequestAndDisarms ==
    last.op \in RetryOps =>
        /\ last.armed
        /\ Len(last.issued) = 1
        /\ ~retryPossible
        /\ isLoading

\* C39, where it holds: a retry action invoked in phase2 or evaluating sends
\* one request and leaves the flag disarmed.
C39_RetryInPhase2OrEvaluatingSendsRequest ==
    (last.op \in RetryOps /\ last.phase \in {"phase2", "evaluating"}) =>
        /\ last.armed
        /\ Len(last.issued) = 1
        /\ ~retryPossible
        /\ isLoading

\* The Retry button of the question view was clicked in phase1.
C39_Witness ==
    /\ last.op = "retryFetchQuestion"
    /\ last.phase = "phase1"
    /\ last.armed


\* The tasks by which the user leaves the quiz under way: a reload, and the
\* handlers that reset it.
QuizLeft == last.op \in {"pageLoad", "resetQuiz", "startNewQuiz"}

\* C40: once the asset is loaded, a quiz the user has started reaches phase
\* results, unless the user leaves it before (by a reload or a reset).
C40_StartedQuizReachesResults ==
    (last.op = "startQuiz" /\ mount = "loaded")
        ~> (quizPhase = "results" \/ QuizLeft)

\* C40, where it holds: so does a quiz started with no request pending.
C40_QuizStartedIdleReachesResults ==
    (last.op = "startQuiz" /\ mount = "loaded" /\ inflight = <<>>)
        ~> (quizPhase = "results" \/ QuizLeft)

\* The started quiz is in phase1 with the retry flag armed, no request
\* pending, no question card, and a Retry button that has sent nothing.
C40_Witness ==
    /\ last.op = "retryFetchQuestion" /\ last.issued = <<>>
    /\ quizPhase = "phase1" /\ "phase1" \in visited
    /\ mount = "loaded" /\ inflight = <<>>
    /\ RetryQuestionOffered /\ ~QuestionCardShown /\ ~RestartOffered

=============================================================================
